---------------------------- MODULE Spec2Model ----------------------------
(***************************************************************************)
(* Model of the snapshot pipeline of data_processing/clover_vis.py:        *)
(* CloverVisualizer.read_vtk_file, save_timestep_data, process_all_files.  *)
(*                                                                         *)
(* Arrays are numpy arrays: a shape and a flat row-major buffer.  Values   *)
(* are integers standing for the floats of the snapshot.  File names and   *)
(* bundle names are sequences of character codes, so that the lexical      *)
(* order of sorted() and the integer value of a timestep token are two     *)
(* different things.                                                       *)
(***************************************************************************)
EXTENDS Integers, Sequences, FiniteSets, TLC

(***************************************************************************)
(* Bounds of the model.                                                    *)
(***************************************************************************)
\* largest length of a coordinate axis
MaxN == 2
\* largest element count of an array attached to a file
MaxLen == 4
\* largest number of snapshot files in the input directory
MaxFiles == 2
\* largest number of digits of a timestep token
MaxDigits == 2
\* largest number of snapshot files in the directory of a batch with
\* failing files
MaxBatch == 3

\* the most calls of process_all_files on one visualizer, and runs of the
\* aggregation on one directory
MaxPasses == 2

\* the digits a timestep token is written with
Digits == {0, 1, 9}

(***************************************************************************)
(* Sequences.                                                              *)
(***************************************************************************)
Range(s) == {s[k] : k \in DOMAIN s}

RECURSIVE Flatten(_)
Flatten(ss) == IF ss = <<>> THEN <<>> ELSE Head(ss) \o Flatten(Tail(ss))

Min(a, b) == IF a <= b THEN a ELSE b

Max(a, b) == IF a >= b THEN a ELSE b

\* the sequences over S of length 1..n
SeqsUpTo(S, n) == UNION {[1..k -> S] : k \in 1..n}

\* the subsets of S of at most n elements
SubsetsUpTo(S, n) == {{}} \cup {Range(s) : s \in SeqsUpTo(S, n)}

\* the orders in which a set can be enumerated
Orders(S) == {s \in [1..Cardinality(S) -> S] : Range(s) = S}

(***************************************************************************)
(* File names.  A snapshot is clover.<chunk>.<step>.vtk; the model keys a  *)
(* file by the digits of <step> and FileName gives its characters.         *)
(***************************************************************************)
\* "clover.00001."
StemChars == <<99, 108, 111, 118, 101, 114, 46, 48, 48, 48, 48, 49, 46>>
\* ".vtk"
ExtChars == <<46, 118, 116, 107>>

DigitChar(d) == 48 + d

FileName(tok) == StemChars \o [k \in DOMAIN tok |-> DigitChar(tok[k])] \o ExtChars

Tokens == SeqsUpTo(Digits, MaxDigits)

\* str.split('.'): the pieces between the dots
RECURSIVE SplitDot(_, _, _)
SplitDot(s, cur, acc) ==
    IF s = <<>> THEN Append(acc, cur)
    ELSE IF Head(s) = 46 THEN SplitDot(Tail(s), <<>>, Append(acc, cur))
    ELSE SplitDot(Tail(s), Append(cur, Head(s)), acc)

\* int() of a string of decimal digits
RECURSIVE ParseInt(_, _)
ParseInt(chars, acc) ==
    IF chars = <<>> THEN acc
    ELSE ParseInt(Tail(chars), 10 * acc + (Head(chars) - 48))

\* int(filename.split('.')[-2])
Timestep(name) ==
    LET parts == SplitDot(name, <<>>, <<>>)
    IN ParseInt(parts[Len(parts) - 1], 0)

\* comparison of two str (of two Path in one directory): the first
\* differing character decides, a proper prefix is smaller
RECURSIVE LexLess(_, _)
LexLess(a, b) ==
    IF a = <<>> THEN b # <<>>
    ELSE IF b = <<>> THEN FALSE
    ELSE IF Head(a) # Head(b) THEN Head(a) < Head(b)
    ELSE LexLess(Tail(a), Tail(b))

\* sorted(...) with no key: ascending in the order of the file names
PathLess(a, b) == LexLess(FileName(a), FileName(b))

RECURSIVE InsertSorted(_, _)
InsertSorted(x, s) ==
    IF s = <<>> THEN <<x>>
    ELSE IF PathLess(x, Head(s)) THEN <<x>> \o s
    ELSE <<Head(s)>> \o InsertSorted(x, Tail(s))

RECURSIVE Sorted(_)
\* a slip of Sorted: the list is left in the order glob returned it
Unsorted(s) == s

Sorted(s) == IF s = <<>> THEN <<>> ELSE InsertSorted(Head(s), Sorted(Tail(s)))

\* decimal digits of n
RECURSIVE DecChars(_)
DecChars(n) ==
    IF n < 10 THEN <<DigitChar(n)>>
    ELSE Append(DecChars(n \div 10), DigitChar(n % 10))

\* f"{n:04d}": at least four digits, padded with zeros on the left
Fmt04d(n) ==
    LET d == DecChars(n)
    IN [k \in 1..(4 - Min(4, Len(d))) |-> DigitChar(0)] \o d


(***************************************************************************)
(* numpy arrays and dicts.                                                 *)
(***************************************************************************)
Array(shape, values) == [shape |-> shape, data |-> values]

NoArray == Array(<<>>, <<>>)

EmptyDict == [n \in {} |-> NoArray]

\* d[k] = v
DictSet(d, k, v) == [x \in DOMAIN d \cup {k} |-> IF x = k THEN v ELSE d[x]]

\* element [i][j] (from 0) of a 2-D array
At(a, i, j) == a.data[i * a.shape[2] + j + 1]

\* ndarray.reshape((r, c)) of a flat array: a negative entry is the one
\* unknown dimension, which numpy infers from the element count
Reshape(values, r, c) ==
    LET n == Len(values)
        fail == [ok |-> FALSE, arr |-> NoArray]
    IN IF r < 0 /\ c < 0 THEN fail
       ELSE IF r < 0
            THEN IF c = 0 \/ n % c # 0 THEN fail
                 ELSE [ok |-> TRUE, arr |-> Array(<<n \div c, c>>, values)]
       ELSE IF c < 0
            THEN IF r = 0 \/ n % r # 0 THEN fail
                 ELSE [ok |-> TRUE, arr |-> Array(<<r, n \div r>>, values)]
       ELSE IF n # r * c THEN fail
       ELSE [ok |-> TRUE, arr |-> Array(<<r, c>>, values)]

\* np.tile(a, (reps, 1)) of a 1-D array
Tile(a, reps) ==
    Array(<<reps, Len(a)>>, [k \in 1..(reps * Len(a)) |-> a[((k - 1) % Len(a)) + 1]])

\* ndarray.T of a 2-D array
Transpose(a) ==
    LET r == a.shape[1]
        c == a.shape[2]
    IN Array(<<c, r>>,
             [k \in 1..(r * c) |-> a.data[((k - 1) % r) * c + ((k - 1) \div r) + 1]])

\* np.stack(arrays, axis=0): all input arrays must have the same shape
Stack(arrays) ==
    IF \E k \in DOMAIN arrays : arrays[k].shape # arrays[1].shape
    THEN [ok |-> FALSE, arr |-> NoArray]
    ELSE [ok |-> TRUE,
          arr |-> Array(<<Len(arrays)>> \o arrays[1].shape,
                        Flatten([k \in DOMAIN arrays |-> arrays[k].data]))]

\* np.sqrt on the model's integers: the root rounded down
Sqrt(n) == CHOOSE r \in 0..n : r * r <= n /\ n < (r + 1) * (r + 1)

\* a slip of Magnitude: the root is left out
MagnitudeSquared(xvel, yvel) ==
    Array(xvel.shape,
          [k \in DOMAIN xvel.data |->
              xvel.data[k] * xvel.data[k] + yvel.data[k] * yvel.data[k]])

\* np.sqrt(xvel**2 + yvel**2), elementwise
Magnitude(xvel, yvel) ==
    Array(xvel.shape,
          [k \in DOMAIN xvel.data |->
              Sqrt(xvel.data[k] * xvel.data[k] + yvel.data[k] * yvel.data[k])])

(***************************************************************************)
(* Snapshot files, as the VTK reader hands them over: two coordinate axes  *)
(* and named flat arrays attached to the cells and to the points.  A file  *)
(* is [nx, ny, cell, point], cell and point giving the element count of    *)
(* each array the file carries.                                            *)
(***************************************************************************)
CellNames == <<"density">>

PointNames == <<"x_vel", "y_vel", "velocity_magnitude">>

\* the arrays of a file: any subset of the names, each of any length
ArraySets(names) ==
    UNION {[S -> 0..MaxLen] : S \in SUBSET Range(names)}

Files ==
    [nx : 0..MaxN, ny : 0..MaxN, cell : ArraySets(CellNames), point : ArraySets(PointNames)]

\* data.GetXCoordinates(), data.GetYCoordinates(): strictly increasing
XCoordinates(f) == [j \in 1..f.nx |-> j]

YCoordinates(f) == [k \in 1..f.ny |-> 10 + k]

\* the values of the array called name, n elements long
ArrayValues(name, n) ==
    LET scale == CASE name = "x_vel" -> 3
                   [] name = "y_vel" -> 4
                   [] name = "velocity_magnitude" -> 7
                   [] OTHER -> 2
    IN [k \in 1..n |-> scale * k]

\* the flat arrays of a file, by name; a file with a fill field holds
\* uniform arrays, every element of an array being the fill of its name
FileValues(f, lens) ==
    [n \in DOMAIN lens |->
        IF "fill" \in DOMAIN f THEN [k \in 1..lens[n] |-> f.fill[n]]
        ELSE ArrayValues(n, lens[n])]

\* GetArrayName(i) for i in range(GetNumberOfArrays())
ArrayNames(names, lens) == SelectSeq(names, LAMBDA n : n \in DOMAIN lens)

\* the same for the point arrays of a file; a file with an order field
\* holds its point arrays in that order
PointArrayNames(f) ==
    IF "order" \in DOMAIN f THEN f.order ELSE ArrayNames(PointNames, f.point)

(***************************************************************************)
(* CloverVisualizer.read_vtk_file                                          *)
(***************************************************************************)
\* one of the two extraction loops: reshape every array to (r, c) and put
\* it in the dict; the first reshape that fails raises
RECURSIVE ExtractArrays(_, _, _, _, _)
ExtractArrays(names, values, r, c, dict) ==
    IF names = <<>> THEN [ok |-> TRUE, dict |-> dict]
    ELSE LET res == Reshape(values[Head(names)], r, c)
         IN IF ~res.ok THEN [ok |-> FALSE, dict |-> dict]
            ELSE ExtractArrays(Tail(names), values, r, c,
                               DictSet(dict, Head(names), res.arr))

Snapshot(x, y, cells, points) ==
    [ok |-> TRUE, error |-> "none",
     x_coords |-> x, y_coords |-> y, cell_data |-> cells, point_data |-> points]

\* read_vtk_file raised: the exception is logged and re-raised
Raised(kind) ==
    [ok |-> FALSE, error |-> kind,
     x_coords |-> <<>>, y_coords |-> <<>>, cell_data |-> EmptyDict, point_data |-> EmptyDict]

\* no snapshot read yet
NoData == Raised("none")

\* a slip of WithMagnitude: a missing y_vel counts as zero, so the
\* magnitude is derived from x_vel alone
WithMagnitudeZeroFill(points) ==
    IF "x_vel" \in DOMAIN points
    THEN DictSet(points, "velocity_magnitude",
                 IF "y_vel" \in DOMAIN points
                 THEN Magnitude(points["x_vel"], points["y_vel"])
                 ELSE Magnitude(points["x_vel"], points["x_vel"]))
    ELSE points

\* the velocity magnitude is computed when both components exist
WithMagnitude(points) ==
    IF "x_vel" \in DOMAIN points /\ "y_vel" \in DOMAIN points
    THEN DictSet(points, "velocity_magnitude",
                 Magnitude(points["x_vel"], points["y_vel"]))
    ELSE points

read_vtk_file(f) ==
    LET x_coords == XCoordinates(f)
        y_coords == YCoordinates(f)
        cells == ExtractArrays(ArrayNames(CellNames, f.cell), FileValues(f, f.cell),
                               Len(y_coords) - 1, Len(x_coords) - 1, EmptyDict)
        points == ExtractArrays(PointArrayNames(f), FileValues(f, f.point),
                                Len(y_coords), Len(x_coords), EmptyDict)
    IN IF ~cells.ok THEN Raised("ValueError")
       ELSE IF ~points.ok THEN Raised("ValueError")
       ELSE Snapshot(x_coords, y_coords, cells.dict, WithMagnitude(points.dict))

(***************************************************************************)
(* CloverLeafVisualizer.read_vtk_file of visualize_V2.py                   *)
(***************************************************************************)
\* a slip of ExtractPointArraysV2: the magnitude is not computed at all
ExtractPointArraysOnly(names, values, r, c, dict) == ExtractArrays(names, values, r, c, dict)

\* lines 57-68: the loop over the point arrays; when an array is in the
\* dict, the magnitude is computed if both components are there
RECURSIVE ExtractPointArraysV2(_, _, _, _, _)
ExtractPointArraysV2(names, values, r, c, dict) ==
    IF names = <<>> THEN [ok |-> TRUE, dict |-> dict]
    ELSE LET res == Reshape(values[Head(names)], r, c)
         IN IF ~res.ok THEN [ok |-> FALSE, dict |-> dict]
            ELSE ExtractPointArraysV2(Tail(names), values, r, c,
                                      WithMagnitude(DictSet(dict, Head(names), res.arr)))

v2_read_vtk_file(f) ==
    LET x_coords == XCoordinates(f)
        y_coords == YCoordinates(f)
        cells == ExtractArrays(ArrayNames(CellNames, f.cell), FileValues(f, f.cell),
                               Len(y_coords) - 1, Len(x_coords) - 1, EmptyDict)
        points == ExtractPointArraysV2(PointArrayNames(f), FileValues(f, f.point),
                                       Len(y_coords), Len(x_coords), EmptyDict)
    IN IF ~cells.ok THEN Raised("ValueError")
       ELSE IF ~points.ok THEN Raised("ValueError")
       ELSE Snapshot(x_coords, y_coords, cells.dict, points.dict)

\* the arrays the two readers are given: any of the names, each array n
\* elements long or one more
VariantArrays(names, n) == UNION {[S -> {n, n + 1}] : S \in SUBSET Range(names)}

\* the files the two readers are given: a grid of up to MaxN points each
\* way; cell and point arrays with one element for every cell or point or
\* with one more; the point arrays in any order
VariantFiles ==
    UNION {UNION {{[nx |-> g[1], ny |-> g[2], cell |-> cell, point |-> point,
                    order |-> order] :
                      cell \in VariantArrays(CellNames,
                                             Max(g[2] - 1, 0) * Max(g[1] - 1, 0)),
                      order \in Orders(DOMAIN point)} :
                  point \in VariantArrays(PointNames, g[2] * g[1])} :
           g \in (0..MaxN) \X (0..MaxN)}

(***************************************************************************)
(* CloverVisualizer.save_timestep_data                                     *)
(***************************************************************************)
\* np.tile(data['x_coords'], (len(data['y_coords']), 1))
XCoords2D(data) == Tile(data.x_coords, Len(data.y_coords))

\* a slip of YCoords2D: the .T is left out
YCoords2DUntransposed(data) == Tile(data.y_coords, Len(data.x_coords))

\* np.tile(data['y_coords'], (len(data['x_coords']), 1)).T
YCoords2D(data) == Transpose(Tile(data.y_coords, Len(data.x_coords)))

\* a slip of StackOrder: the components before the magnitude
StackOrderComponentsFirst(data) ==
    <<data.point_data["x_vel"], data.point_data["y_vel"],
      data.point_data["velocity_magnitude"], XCoords2D(data), YCoords2D(data)>>

\* the arrays stacked, in the order of the stack
StackOrder(data) ==
    <<data.point_data["velocity_magnitude"], data.point_data["x_vel"],
      data.point_data["y_vel"], XCoords2D(data), YCoords2D(data)>>

\* the fields save_timestep_data looks up, in the order it does
RequiredFields == <<"x_vel", "y_vel", "velocity_magnitude">>

\* a slip of save_timestep_data: the coordinate grids are kept in the
\* snapshot's point fields
save_timestep_data_keeps_grids(data) ==
    LET kept == [data EXCEPT !.point_data =
                    DictSet(DictSet(data.point_data, "x_coords_2d", XCoords2D(data)),
                            "y_coords_2d", YCoords2D(data))]
    IN IF \E k \in DOMAIN RequiredFields : RequiredFields[k] \notin DOMAIN data.point_data
       THEN [ok |-> FALSE, error |-> "KeyError", bundle |-> NoArray, data |-> kept]
       ELSE LET data_array == Stack(StackOrder(data))
            IN IF ~data_array.ok
               THEN [ok |-> FALSE, error |-> "ValueError", bundle |-> NoArray, data |-> kept]
               ELSE [ok |-> TRUE, error |-> "none", bundle |-> data_array.arr, data |-> kept]

\* what save_timestep_data does with a snapshot: the bundle it saves, or
\* the exception it logs and re-raises, and the snapshot as the call
\* leaves it (tile and stack make new arrays, nothing is assigned to data)
save_timestep_data(data) ==
    IF \E k \in DOMAIN RequiredFields : RequiredFields[k] \notin DOMAIN data.point_data
    THEN [ok |-> FALSE, error |-> "KeyError", bundle |-> NoArray, data |-> data]
    ELSE LET data_array == Stack(StackOrder(data))
         IN IF ~data_array.ok
            THEN [ok |-> FALSE, error |-> "ValueError", bundle |-> NoArray, data |-> data]
            ELSE [ok |-> TRUE, error |-> "none", bundle |-> data_array.arr, data |-> data]

(***************************************************************************)
(* CloverLeafVTKReader of old_scripts/vtk_visualizer.py: read_vtk_file and *)
(* the statistics of analyze_time_evolution.                               *)
(***************************************************************************)
RECURSIVE SumSeq(_)
SumSeq(s) == IF s = <<>> THEN 0 ELSE Head(s) + SumSeq(Tail(s))

\* the keys the dict starts with
ReaderKeys == {"dimensions", "x_coords", "y_coords"}

\* CloverLeafVTKReader.read_vtk_file: the dimensions, the two axes and
\* every point array of the file, flat as vtk_to_numpy returns it; an
\* array with the name of a key takes its place
reader_read_vtk_file(f) ==
    [key \in ReaderKeys \cup DOMAIN f.point |->
        IF key \in DOMAIN f.point
        THEN Array(<<f.point[key]>>, FileValues(f, f.point)[key])
        ELSE CASE key = "dimensions" -> <<f.nx, f.ny, 1>>
               [] key = "x_coords" -> Array(<<f.nx>>, XCoordinates(f))
               [] key = "y_coords" -> Array(<<f.ny>>, YCoordinates(f))]

\* lines 126-130: the magnitude of each row of a vector array, the values
\* themselves of a scalar array
FieldValues(field_data) ==
    IF Len(field_data.shape) > 1
    THEN LET cols == field_data.shape[2]
         IN [r \in 1..field_data.shape[1] |->
                Sqrt(SumSeq([c \in 1..cols |->
                        field_data.data[(r - 1) * cols + c]
                            * field_data.data[(r - 1) * cols + c]]))]
    ELSE field_data.data

\* np.max and np.min of a non-empty array
NpMax(values) == CHOOSE m \in Range(values) : \A v \in Range(values) : v <= m

NpMin(values) == CHOOSE m \in Range(values) : \A v \in Range(values) : m <= v

\* np.mean, kept as the sum and the count it divides by
NpMean(values) == [sum |-> SumSeq(values), count |-> Len(values)]

\* plot_field, lines 68-92: TRUE when the reshape of the field to the
\* grid raises; a file without the field is left out with a log line
PlotFieldRaises(f, field) ==
    LET data == reader_read_vtk_file(f)
    IN /\ field \in DOMAIN data
       /\ ~Reshape(FieldValues(data[field]), f.ny, f.nx).ok

\* plot_field, line 96: pcolormesh is handed an empty array when the
\* field has no elements
PlotFieldEmpty(f, field) ==
    LET data == reader_read_vtk_file(f)
    IN /\ field \in DOMAIN data
       /\ FieldValues(data[field]) = <<>>

(***************************************************************************)
(* CloverLeafAnalyzer of old_py_scripts/CloverLeaf_Data_Analyzer.py:       *)
(* _find_vtk_files and _parse_output_file.                                 *)
(***************************************************************************)
\* most blocks and other pieces of text in a solver log
MaxBlocks == 3
\* largest step number of a block
MaxStep == 2

\* "." and "out"
DirectoryNames == {<<46>>, <<111, 117, 116>>}

\* os.path.join(self.directory, name)
PathName(directory, tok) == directory \o <<47>> \o FileName(tok)

\* int() of a piece of a file name, 0 when it raises ValueError
IntOrZero(chars) ==
    IF chars # <<>> /\ (\A k \in DOMAIN chars : chars[k] \in 48..57)
    THEN ParseInt(chars, 0)
    ELSE 0

\* get_timestep of _find_vtk_files
get_timestep(filename) ==
    LET parts == SplitDot(filename, <<>>, <<>>)
    IN IF Len(parts) >= 5 THEN IntOrZero(parts[Len(parts) - 1]) ELSE 0

\* sorted(files, key=get_timestep): files of one key stay in the order of
\* the list
RECURSIVE InsertByTimestep(_, _, _)
InsertByTimestep(directory, tok, s) ==
    IF s = <<>> THEN <<tok>>
    ELSE IF get_timestep(PathName(directory, tok))
               <= get_timestep(PathName(directory, Head(s)))
         THEN <<tok>> \o s
         ELSE <<Head(s)>> \o InsertByTimestep(directory, tok, Tail(s))

RECURSIVE SortedByTimestep(_, _)
SortedByTimestep(directory, s) ==
    IF s = <<>> THEN <<>>
    ELSE InsertByTimestep(directory, Head(s), SortedByTimestep(directory, Tail(s)))

\* the columns of a block after "Time", in the order of the header
LogColumns ==
    <<"volume", "mass", "density", "pressure", "internal_energy", "kinetic_energy",
      "total_energy">>

\* A solver log is missing, unreadable or a text.  A text is a sequence of
\* pieces: a block, i.e. a stretch the pattern matches, with its step, the
\* number base its time and values are made of and the column (0: none)
\* whose token is not a number, or junk the pattern does not match.
Junk == [kind |-> "junk", step |-> 0, base |-> 0, bad |-> 0]

Blocks == [kind : {"block"}, step : 1..MaxStep, base : {10, 20}, bad : {0, 4}]

Logs ==
    {[state |-> "missing", content |-> <<>>], [state |-> "unreadable", content |-> <<>>]}
    \cup {[state |-> "text", content |-> c] :
            c \in {<<>>} \cup SeqsUpTo(Blocks \cup {Junk}, MaxBlocks)}

\* match.group(1) of a block: digits, a point, digits; here <base / 10>.5
TimeToken(block) == DecChars(block.base \div 10) \o <<46, DigitChar(5)>>

\* match.group(2) of a block: the digits of the step
StepToken(block) == DecChars(block.step)

\* match.group(2 + c) of a block, the c-th of the seven tokens: here
\* <base + c>.<c>, or "****" in the column that is not a number
ValueToken(block, c) ==
    IF block.bad = c THEN <<42, 42, 42, 42>>
    ELSE DecChars(block.base + c) \o <<46, DigitChar(c)>>

IsDigits(chars) == chars # <<>> /\ \A k \in DOMAIN chars : chars[k] \in 48..57

\* float() of a token written as digits, a point and one digit: the number
\* in tenths; ValueError for a token that is not a number
Float(token) ==
    LET parts == SplitDot(token, <<>>, <<>>)
    IN IF Len(parts) = 2 /\ IsDigits(parts[1]) /\ IsDigits(parts[2]) /\ Len(parts[2]) = 1
       THEN [ok |-> TRUE, value |-> 10 * ParseInt(parts[1], 0) + ParseInt(parts[2], 0)]
       ELSE [ok |-> FALSE, value |-> 0]

\* re.finditer(pattern, content): the blocks, from left to right
Matches(content) == SelectSeq(content, LAMBDA piece : piece.kind = "block")

EmptyMapping == [n \in {} |-> 0]

\* the dict of line 50
BlockEntry(block) ==
    [k \in {"time"} \cup Range(LogColumns) |->
        IF k = "time" THEN Float(TimeToken(block)).value
        ELSE LET c == CHOOSE c \in DOMAIN LogColumns : LogColumns[c] = k
             IN Float(ValueToken(block, c)).value]

\* a slip of ParseMatches: a step that is there already is not assigned
RECURSIVE ParseMatchesFirstWins(_, _)
ParseMatchesFirstWins(matches, timestep_data) ==
    IF matches = <<>> THEN [ok |-> TRUE, error |-> "none", data |-> timestep_data]
    ELSE LET match == Head(matches)
         IN IF \E c \in DOMAIN LogColumns : ~Float(ValueToken(match, c)).ok
            THEN [ok |-> FALSE, error |-> "ValueError", data |-> timestep_data]
            ELSE ParseMatchesFirstWins(Tail(matches),
                    IF ParseInt(StepToken(match), 0) \in DOMAIN timestep_data THEN timestep_data
                    ELSE DictSet(timestep_data, ParseInt(StepToken(match), 0), BlockEntry(match)))

\* lines 47-59: the loop over the matches; the first float() that fails
\* leaves it with ValueError
RECURSIVE ParseMatches(_, _)
ParseMatches(matches, timestep_data) ==
    IF matches = <<>> THEN [ok |-> TRUE, error |-> "none", data |-> timestep_data]
    ELSE LET match == Head(matches)
         IN IF \E c \in DOMAIN LogColumns : ~Float(ValueToken(match, c)).ok
            THEN [ok |-> FALSE, error |-> "ValueError", data |-> timestep_data]
            ELSE ParseMatches(Tail(matches),
                              DictSet(timestep_data, ParseInt(StepToken(match), 0), BlockEntry(match)))

\* a slip of Caught: except OSError
CaughtOSError(kind) == kind \in {"FileNotFoundError", "PermissionError"}

\* line 64, except Exception: every exception of the try block is caught
Caught(kind) == kind \in {"FileNotFoundError", "PermissionError", "ValueError"}

\* _parse_output_file: what it returns, or the exception it lets through
parse_output_file(log) ==
    LET body == CASE log.state = "missing" ->
                       [ok |-> FALSE, error |-> "FileNotFoundError", data |-> EmptyMapping]
                  [] log.state = "unreadable" ->
                       [ok |-> FALSE, error |-> "PermissionError", data |-> EmptyMapping]
                  [] OTHER -> ParseMatches(Matches(log.content), EmptyMapping)
    IN IF body.ok THEN [raised |-> "none", value |-> body.data]
       ELSE IF Caught(body.error) THEN [raised |-> "none", value |-> EmptyMapping]
       ELSE [raised |-> body.error, value |-> EmptyMapping]

(***************************************************************************)
(* CloverLeafFinalStateAnalyzer of final_state_visualizer.py.              *)
(***************************************************************************)
\* sorted(files) as the other variants have it: the order of the names
LexSorted(directory, s) == Sorted(s)

\* line 21: sorted(files, key=lambda x: int(x.split('.')[-2])); files of
\* one key stay in the order of the list
RECURSIVE InsertByKey(_, _, _)
InsertByKey(directory, tok, s) ==
    IF s = <<>> THEN <<tok>>
    ELSE IF Timestep(PathName(directory, tok)) <= Timestep(PathName(directory, Head(s)))
         THEN <<tok>> \o s
         ELSE <<Head(s)>> \o InsertByKey(directory, tok, Tail(s))

RECURSIVE SortedByKey(_, _)
SortedByKey(directory, s) ==
    IF s = <<>> THEN <<>>
    ELSE InsertByKey(directory, Head(s), SortedByKey(directory, Tail(s)))

\* lines 23-27: get_final_state
get_final_state(files) ==
    IF files = <<>>
    THEN [raised |-> "FileNotFoundError", value |-> <<>>]
    ELSE [raised |-> "none", value |-> files[Len(files)]]

\* line 91: skip = max(nx//30, ny//30)
Skip(nx, ny) == Max(nx \div 30, ny \div 30)

\* the indexes (from 1) a slice [::step] takes of n elements, step > 0
SliceIndexes(n, step) == {k \in 1..n : (k - 1) % step = 0}

\* a[::step] of a 1-D array; ValueError "slice step cannot be zero"
SliceStep(a, step) ==
    IF step = 0
    THEN [raised |-> "ValueError", value |-> <<>>]
    ELSE [raised |-> "none",
          value |-> [k \in 1..Cardinality(SliceIndexes(Len(a), step)) |->
                        a[(k - 1) * step + 1]]]

\* the grids a final state is plotted of, as <<nx, ny>>
FinalGrids == {<<1, 1>>, <<4, 3>>, <<30, 4>>, <<3, 65>>, <<65, 30>>}

\* the files of the directory of a final-state analyzer: grids with both
\* velocity components, and a grid without y_vel
FinalFiles ==
    {[nx |-> g[1], ny |-> g[2], cell |-> [n \in {} |-> 0],
      point |-> [n \in {"x_vel", "y_vel"} |-> g[2] * g[1]]] : g \in FinalGrids}
    \cup {[nx |-> 4, ny |-> 3, cell |-> [n \in {} |-> 0], point |-> [n \in {"x_vel"} |-> 12]]}

(***************************************************************************)
(* CloverLeafRunner.__init__ of run_cloverleaf.py: the search for the      *)
(* repository.  A path is the sequence of its names below the root, the    *)
(* root being the empty sequence.                                          *)
(***************************************************************************)
\* most names of the working directory below the root
MaxDepth == 3

DirNames == {"home", "repo"}

Root == <<>>

Paths == {Root} \cup SeqsUpTo(DirNames, MaxDepth)

\* Path.parent: the root is its own parent
Parent(path) == IF path = Root THEN Root ELSE SubSeq(path, 1, Len(path) - 1)

\* the path and its ancestors, the root included
Ancestors(path) == {SubSeq(path, 1, k) : k \in 0..Len(path)}

(***************************************************************************)
(* CloverLeafRunner of run_cloverleaf.py: the names of its files and       *)
(* directories.                                                            *)
(***************************************************************************)
\* most calls of run_workflow
MaxWorkflows == 2

\* "clover.out", "clover.visit", "clover.in", "run_config.json"
CloverOut == <<99, 108, 111, 118, 101, 114, 46, 111, 117, 116>>

CloverVisit == <<99, 108, 111, 118, 101, 114, 46, 118, 105, 115, 105, 116>>

CloverIn == <<99, 108, 111, 118, 101, 114, 46, 105, 110>>

RunConfigName == <<114, 117, 110, 95, 99, 111, 110, 102, 105, 103, 46, 106, 115, 111, 110>>

\* "clover_leaf", the binary of the solver
CloverLeafBinary == <<99, 108, 111, 118, 101, 114, 95, 108, 101, 97, 102>>

\* a name glob("*.vtk") matches
IsVtk(name) == Len(name) >= Len(ExtChars)
               /\ SubSeq(name, Len(name) - Len(ExtChars) + 1, Len(name)) = ExtChars

\* the cells and iteration arguments run_workflow is called with
CellsArgs == {32, 64}

IterationArgs == {1, 2}

\* lines 174-176: param_str, with the defaults of the other parameters
ParamStr(cells) ==
    IF cells = 32 THEN "c32_s500_d10.2_d21.0_e11.0_e22.5"
    ELSE "c64_s500_d10.2_d21.0_e11.0_e22.5"

\* a directory of output_dir: iteration_<param>_<iteration>, or
\* iteration_<iteration> when there is no param part
IterationDir(param, iteration) == [param |-> param, iteration |-> iteration]

NoParam == ""

\* what one run of the solver writes into clover_dir: the snapshots of the
\* first steps, with clover.visit when there is a snapshot, and its log
SolverOutputs ==
    {{FileName(<<d>>) : d \in 0..(n - 1)} \cup (IF n > 0 THEN {CloverVisit} ELSE {}) \cup out :
        n \in {0, 1, 2}, out \in {{}, {CloverOut}}}

\* a directory without files; a directory maps the name of each of its
\* files to the call of run_workflow the content was written in
NoFiles == [n \in {} |-> 0]

\* the files named are written, or written over, in the call run
Written(dir, names, run) ==
    [n \in DOMAIN dir \cup names |-> IF n \in names THEN run ELSE dir[n]]

\* the files named are gone from the directory
Removed(dir, names) == [n \in DOMAIN dir \ names |-> dir[n]]

\* shutil.move of the files named from one directory into the other,
\* over a file of the same name there: what the other directory becomes
Moved(from, names, to) ==
    [n \in DOMAIN to \cup names |-> IF n \in names THEN from[n] ELSE to[n]]

\* os.mkdir(parents=True, exist_ok=True) in output_dir
Mkdir(tree, dir) == IF dir \in DOMAIN tree THEN tree ELSE DictSet(tree, dir, NoFiles)

(***************************************************************************)
(* CloverVisualizer.process_all_files, one pass over the input directory.  *)
(***************************************************************************)
VARIABLES
    input_dir,   \* the *.vtk files of input_dir: step token -> file
    npy_dir,     \* the bundle files of npy_dir: the digits of the name -> stack
    pc,          \* "idle", "loop", "done" or "raised"
    vtk_files,   \* the sorted list of the pass
    i,           \* the index enumerate() is at
    data,        \* the snapshot read_vtk_file returned last
    coords_2d,   \* the coordinate grids save_timestep_data built last
    error,       \* the exception that ended the pass, and the call it left
    visited,     \* history: the files handed to read_vtk_file, in order
    saved,       \* history: the bundle files written and the file of each
    passes       \* the calls of process_all_files that have returned

pass_vars ==
    <<input_dir, npy_dir, pc, vtk_files, i, data, coords_2d, error, visited, saved, passes>>

\* CloverLeafVTKReader and main() of old_scripts/vtk_visualizer.py
VARIABLES
    reader_pc,         \* "new", "ready", "main", "loop", "done" or "raised"
    reader_vtk_files,  \* self.vtk_files
    caller,            \* who called analyze_time_evolution: "main" or "call"
    available_fields,  \* the fields main() has still to go through
    field_name,        \* the argument of analyze_time_evolution
    file_index,        \* the files the loop of analyze_time_evolution is through
    max_values,
    mean_values,
    min_values,
    timesteps,
    time_evolution,    \* the plots of time_evolution/: field -> the series plotted
    reader_error,      \* the exception that ended main() or the call
    runs               \* the readers constructed on the directory

reader_vars ==
    <<reader_pc, reader_vtk_files, caller, available_fields, field_name, file_index,
      max_values, mean_values, min_values, timesteps, time_evolution, reader_error, runs>>

\* CloverLeafAnalyzer of old_py_scripts/CloverLeaf_Data_Analyzer.py
VARIABLES
    clover_out,          \* the solver log clover.out of the working directory
    directory,           \* self.directory, the name input_dir goes by
    analyzer_pc,         \* "new", "constructed" or "raised"
    analyzer_vtk_files,  \* self.vtk_files
    output_data,         \* self.output_data
    analyzer_error       \* the exception that ended the construction

analyzer_vars ==
    <<clover_out, directory, analyzer_pc, analyzer_vtk_files, output_data, analyzer_error>>

\* CloverLeafRunner of run_cloverleaf.py
VARIABLES
    clover_dir,     \* the files of CloverLeaf_Serial the runner deals with
    output_dir,     \* the directories of data_processing/new_data and their files
    archives,       \* the archives of new_data: name -> the members
    runner_pc,      \* "idle", "input", "simulated", "processed", "archived",
                    \* "done" or "failed"
    param_str,
    iteration,
    iter_dir,       \* iter_dir of run_workflow
    archive_name,   \* the archive create_archive made last
    run_config,     \* config_data as dumped last
    config_writes,  \* history: the dumps of config_data in this call
    produced,       \* history: what the solver wrote in this call
    runner_error,   \* what ended run_workflow early
    workflows,      \* the calls of run_workflow
    runner_caller,  \* who called run_workflow: "main" or "call"
    should_cleanup, \* should_cleanup of main()
    cleanups,       \* history: the calls of cleanup() in this main()
    result,         \* result.returncode of run_simulation, <<>> before it is there
    stages          \* history: the stages of this call of run_workflow

runner_vars ==
    <<clover_dir, output_dir, archives, runner_pc, param_str, iteration, iter_dir,
      archive_name, run_config, config_writes, produced, runner_error, workflows,
      runner_caller, should_cleanup, cleanups, result, stages>>

\* CloverLeafFinalStateAnalyzer of final_state_visualizer.py
VARIABLES
    final_pc,         \* "new", "constructed", "found", "plotted", "returned", "raised"
    final_vtk_files,  \* self.vtk_files
    final_file,       \* what get_final_state returned
    final_plot,       \* what the vectors of the plot were drawn of
    final_error       \* the exception a method raised

final_vars == <<final_pc, final_vtk_files, final_file, final_plot, final_error>>

\* the two visualizers, of clover_vis.py and of visualize_V2.py, reading
\* one file
VARIABLES
    readers_called,  \* the visualizers whose read_vtk_file was called
    vis_result,      \* what CloverVisualizer.read_vtk_file returned or raised
    v2_result        \* the same of CloverLeafVisualizer.read_vtk_file

variant_vars == <<readers_called, vis_result, v2_result>>

\* the script of old_scripts/visualize_V2.py
VARIABLES
    script_pc,   \* "new", "saving", "animating", "ended" or "died"
    save_npy,    \* args.save_npy
    animations   \* the animations the script has written

script_vars == <<script_pc, save_npy, animations>>

\* CloverLeafRunner.__init__ of run_cloverleaf.py
VARIABLES
    cwd,         \* Path.cwd()
    holders,     \* the directories that hold an entry CloverLeaf_Serial
    search_pc,   \* "new", "given", "loop", "found" or "raised"
    current,     \* current of the loop
    base_dir     \* self.base_dir

search_vars == <<cwd, holders, search_pc, current, base_dir>>

\* what a pass leaves alone
beside_pass == <<reader_vars, analyzer_vars, runner_vars, final_vars, variant_vars, script_vars, search_vars>>

\* what the reader leaves alone
beside_reader == <<pass_vars, analyzer_vars, runner_vars, final_vars, variant_vars, script_vars, search_vars>>

\* what the analyzer leaves alone
beside_analyzer == <<pass_vars, reader_vars, runner_vars, final_vars, variant_vars, script_vars, search_vars>>

\* what the runner leaves alone
beside_runner == <<pass_vars, reader_vars, analyzer_vars, final_vars, variant_vars, script_vars, search_vars>>

\* what the final-state analyzer leaves alone
beside_final == <<pass_vars, reader_vars, analyzer_vars, runner_vars, variant_vars, script_vars, search_vars>>

\* what the two visualizers reading one file leave alone
beside_variants == <<pass_vars, reader_vars, analyzer_vars, runner_vars, final_vars, script_vars, search_vars>>

\* what the script leaves alone besides the pass it makes
beside_script == <<reader_vars, analyzer_vars, runner_vars, final_vars, variant_vars, search_vars>>

\* what the construction of a runner leaves alone
beside_search ==
    <<pass_vars, reader_vars, analyzer_vars, runner_vars, final_vars, variant_vars,
      script_vars>>

vars ==
    <<pass_vars, reader_vars, analyzer_vars, runner_vars, final_vars, variant_vars,
      script_vars, search_vars>>

\* no runner is being constructed; the working directory is the root of
\* a repository
SearchFresh ==
    /\ cwd = <<"repo">>
    /\ holders = {<<"repo">>}
    /\ search_pc = "new"
    /\ current = Root
    /\ base_dir = Root

ScriptFresh ==
    /\ script_pc = "new"
    /\ save_npy = FALSE
    /\ animations = 0

VariantsFresh ==
    /\ readers_called = {}
    /\ vis_result = Raised("none")
    /\ v2_result = Raised("none")

NoVectors == [skip |-> 0, x_sub |-> <<>>, y_sub |-> <<>>, shape |-> <<>>]

FinalFresh ==
    /\ final_pc = "new"
    /\ final_vtk_files = <<>>
    /\ final_file = <<>>
    /\ final_plot = NoVectors
    /\ final_error = "none"

NoDir == IterationDir(NoParam, 0)

NoArchive == [param |-> NoParam, timestamp |-> 0, iteration |-> 0]

NoConfig == [cells |-> 0, output_dir |-> NoDir]

\* lines 17-43: a runner on a repository whose solver has not run and
\* whose new_data is empty
RunnerFresh ==
    /\ clover_dir = NoFiles
    /\ output_dir = [d \in {} |-> NoFiles]
    /\ archives = [a \in {} |-> {}]
    /\ runner_pc = "idle"
    /\ param_str = NoParam
    /\ iteration = 0
    /\ iter_dir = NoDir
    /\ archive_name = NoArchive
    /\ run_config = NoConfig
    /\ config_writes = 0
    /\ produced = {}
    /\ runner_error = "none"
    /\ workflows = 0
    /\ runner_caller = "none"
    /\ should_cleanup = FALSE
    /\ cleanups = 0
    /\ result = <<>>
    /\ stages = <<>>

AnalyzerFresh ==
    /\ analyzer_pc = "new"
    /\ analyzer_vtk_files = <<>>
    /\ output_data = EmptyMapping
    /\ analyzer_error = "none"

\* the working directory is "." and holds no solver log
NoLog ==
    /\ clover_out = [state |-> "missing", content |-> <<>>]
    /\ directory = <<46>>

NoSeries == [timesteps |-> <<>>, max_values |-> <<>>, mean_values |-> <<>>, min_values |-> <<>>]

NoPlots == [n \in {} |-> NoSeries]

\* no call of analyze_time_evolution is under way
NoCall ==
    /\ caller = "none"
    /\ available_fields = <<>>
    /\ field_name = "none"
    /\ file_index = 0
    /\ max_values = <<>>
    /\ mean_values = <<>>
    /\ min_values = <<>>
    /\ timesteps = <<>>

ReaderFresh ==
    /\ reader_pc = "new"
    /\ reader_vtk_files = <<>>
    /\ NoCall
    /\ time_evolution = NoPlots
    /\ reader_error = "none"
    /\ runs = 0

NoError == [kind |-> "none", stage |-> "none"]

NoGrids == [x |-> NoArray, y |-> NoArray]

\* the snapshot files the directory of a pass is filled with: 2 x 2 grids
\* with x_vel, and y_vel present, absent or one element short
PipelineFiles ==
    {[nx |-> 2, ny |-> 2, cell |-> [n \in {} |-> 0], point |-> p] :
        p \in {[n \in {"x_vel"} |-> 4]}
              \cup {[n \in {"x_vel", "y_vel"} |-> IF n = "x_vel" THEN 4 ELSE m] : m \in {3, 4}}}

\* every program but the search for the repository
FreshProgram ==
    /\ npy_dir = EmptyDict
    /\ pc = "idle"
    /\ vtk_files = <<>>
    /\ i = 0
    /\ data = NoData
    /\ coords_2d = NoGrids
    /\ error = NoError
    /\ visited = <<>>
    /\ saved = <<>>
    /\ passes = 0
    /\ ReaderFresh
    /\ AnalyzerFresh
    /\ RunnerFresh
    /\ FinalFresh
    /\ VariantsFresh
    /\ ScriptFresh

Fresh == FreshProgram /\ SearchFresh

\* the snapshot files that read and pack without an exception
ValidFiles == {f \in PipelineFiles : "y_vel" \in DOMAIN f.point /\ f.point["y_vel"] = 4}

\* a directory of up to MaxFiles valid snapshot files, named by any step
\* tokens
Init ==
    /\ \E S \in SubsetsUpTo(Tokens, MaxFiles) : input_dir \in [S -> ValidFiles]
    /\ NoLog
    /\ Fresh

\* a directory of up to MaxBatch snapshot files named by the one-digit
\* step tokens 0, 1, ..., each valid, without y_vel, or with a y_vel that
\* does not fit
InitBatch ==
    /\ \E S \in SUBSET {<<d>> : d \in 0..(MaxBatch - 1)} :
          input_dir \in [S -> PipelineFiles]
    /\ NoLog
    /\ Fresh

\* a directory of one snapshot file, of any content within the bounds
InitSnapshot ==
    /\ input_dir \in [{<<0>>} -> Files]
    /\ NoLog
    /\ Fresh

\* line 101: glob lists the directory in any order, sorted() orders it
ProcessStart ==
    /\ pc = "idle"
    /\ \E listing \in Orders(DOMAIN input_dir) : vtk_files' = Sorted(listing)
    /\ pc' = "loop"
    /\ i' = 0
    /\ UNCHANGED <<input_dir, npy_dir, data, coords_2d, error, visited, saved, passes>>
    /\ UNCHANGED beside_pass

\* a slip of ProcessFile: an exception is logged and the loop goes on
\* with the next file
ProcessFileSkip ==
    /\ pc = "loop"
    /\ i < Len(vtk_files)
    /\ LET vtk_file == vtk_files[i + 1]
           read == read_vtk_file(input_dir[vtk_file])
           save == save_timestep_data(read)
       IN /\ visited' = Append(visited, vtk_file)
          /\ i' = i + 1
          /\ IF ~read.ok
             THEN /\ error' = [kind |-> read.error, stage |-> "read"]
                  /\ UNCHANGED <<npy_dir, data, coords_2d, saved>>
             ELSE /\ data' = save.data
                  /\ coords_2d' = [x |-> XCoords2D(read), y |-> YCoords2D(read)]
                  /\ IF ~save.ok
                     THEN /\ error' = [kind |-> save.error, stage |-> "save"]
                          /\ UNCHANGED <<npy_dir, saved>>
                     ELSE /\ npy_dir' = DictSet(npy_dir, Fmt04d(i), save.bundle)
                          /\ saved' = Append(saved, [file |-> vtk_file, name |-> Fmt04d(i)])
                          /\ UNCHANGED error
    /\ UNCHANGED <<input_dir, vtk_files, pc, passes>>
    /\ UNCHANGED beside_pass

\* lines 104-107: one turn of the loop, read_vtk_file then
\* save_timestep_data; an exception of either leaves process_all_files
ProcessFile ==
    /\ pc = "loop"
    /\ i < Len(vtk_files)
    /\ LET vtk_file == vtk_files[i + 1]
           read == read_vtk_file(input_dir[vtk_file])
           save == save_timestep_data(read)
       IN /\ visited' = Append(visited, vtk_file)
          /\ IF ~read.ok
             THEN /\ pc' = "raised"
                  /\ error' = [kind |-> read.error, stage |-> "read"]
                  /\ UNCHANGED <<npy_dir, i, data, coords_2d, saved>>
             ELSE /\ data' = save.data
                  /\ coords_2d' = [x |-> XCoords2D(read), y |-> YCoords2D(read)]
                  /\ IF ~save.ok
                     THEN /\ pc' = "raised"
                          /\ error' = [kind |-> save.error, stage |-> "save"]
                          /\ UNCHANGED <<npy_dir, i, saved>>
                     ELSE /\ npy_dir' = DictSet(npy_dir, Fmt04d(i), save.bundle)
                          /\ saved' = Append(saved, [file |-> vtk_file, name |-> Fmt04d(i)])
                          /\ i' = i + 1
                          /\ UNCHANGED <<pc, error>>
    /\ UNCHANGED <<input_dir, vtk_files, passes>>
    /\ UNCHANGED beside_pass

\* line 109: the loop is through, process_all_files returns
ProcessFinish ==
    /\ pc = "loop"
    /\ i = Len(vtk_files)
    /\ pc' = "done"
    /\ passes' = passes + 1
    /\ UNCHANGED <<input_dir, npy_dir, vtk_files, i, data, coords_2d, error, visited, saved>>
    /\ UNCHANGED beside_pass

\* process_all_files is called once more on the same visualizer: the
\* locals of the call before are gone, the directories are as it left them
ProcessAgain ==
    /\ pc = "done"
    /\ passes < MaxPasses
    /\ pc' = "idle"
    /\ i' = 0
    /\ data' = NoData
    /\ coords_2d' = NoGrids
    /\ visited' = <<>>
    /\ saved' = <<>>
    /\ UNCHANGED <<input_dir, npy_dir, vtk_files, error, passes>>
    /\ UNCHANGED beside_pass

Next == ProcessStart \/ ProcessFile \/ ProcessFinish \/ ProcessAgain

(***************************************************************************)
(* CloverLeafVTKReader.analyze_time_evolution and main() of                *)
(* old_scripts/vtk_visualizer.py.                                          *)
(***************************************************************************)
\* the names analyze_time_evolution is called with
FieldNames == Range(PointNames)

\* the step tokens the files of a reader's directory are named by
EvolutionTokens == {<<d>> : d \in 0..(MaxBatch - 1)} \cup {<<1, 0>>}

\* the files of a reader's directory: a 2 x 2 grid with both components, a
\* 2 x 1 grid without y_vel, a 2 x 2 grid whose y_vel is one element short,
\* and a grid without points whose arrays are empty
EvolutionFiles ==
    {[nx |-> 2, ny |-> 2, cell |-> [n \in {} |-> 0],
      point |-> [n \in {"x_vel", "y_vel"} |-> 4]],
     [nx |-> 2, ny |-> 1, cell |-> [n \in {} |-> 0],
      point |-> [n \in {"x_vel"} |-> 2]],
     [nx |-> 2, ny |-> 2, cell |-> [n \in {} |-> 0],
      point |-> [n \in {"x_vel", "y_vel"} |-> IF n = "x_vel" THEN 4 ELSE 3]],
     [nx |-> 0, ny |-> 0, cell |-> [n \in {} |-> 0],
      point |-> [n \in {"x_vel", "y_vel"} |-> 0]]}

\* a directory of up to MaxFiles such files
InitEvolution ==
    /\ \E S \in SubsetsUpTo(EvolutionTokens, MaxFiles) : input_dir \in [S -> EvolutionFiles]
    /\ NoLog
    /\ Fresh

\* lines 13-25: a reader is constructed; glob lists the directory in any
\* order, sorted() orders the names
ReaderInit ==
    /\ reader_pc = "new"
    /\ \E listing \in Orders(DOMAIN input_dir) : reader_vtk_files' = Sorted(listing)
    /\ reader_pc' = "ready"
    /\ runs' = runs + 1
    /\ UNCHANGED <<caller, available_fields, field_name, file_index, max_values,
                   mean_values, min_values, timesteps, time_evolution, reader_error>>
    /\ UNCHANGED beside_reader

\* lines 161-170 of main(): without files it returns, else the fields are
\* the arrays of the first file
MainStart ==
    /\ reader_pc = "ready"
    /\ caller = "none"
    /\ caller' = "main"
    /\ IF reader_vtk_files = <<>>
       THEN /\ reader_pc' = "done"
            /\ UNCHANGED available_fields
       ELSE /\ reader_pc' = "main"
            /\ available_fields' =
                  LET first == reader_read_vtk_file(input_dir[reader_vtk_files[1]])
                      arrays == ArrayNames(PointNames, input_dir[reader_vtk_files[1]].point)
                  IN SelectSeq(arrays, LAMBDA k : k \in DOMAIN first /\ k \notin ReaderKeys)
    /\ UNCHANGED <<reader_vtk_files, field_name, file_index, max_values, mean_values,
                   min_values, timesteps, time_evolution, reader_error, runs>>
    /\ UNCHANGED beside_reader

\* lines 173-176 and 112-117: the next field is plotted for every file,
\* then analyze_time_evolution is entered for it.  A reshape that fails in
\* plot_field ends main(); what pcolormesh does with an empty array is
\* left open
MainField ==
    /\ reader_pc = "main"
    /\ available_fields # <<>>
    /\ LET field == Head(available_fields)
           files == {input_dir[t] : t \in Range(reader_vtk_files)}
       IN \E raises \in BOOLEAN :
             /\ (\E f \in files : PlotFieldRaises(f, field)) => raises
             /\ raises => \E f \in files : PlotFieldRaises(f, field) \/ PlotFieldEmpty(f, field)
             /\ IF raises
                THEN /\ reader_pc' = "raised"
                     /\ reader_error' = "ValueError"
                     /\ UNCHANGED <<available_fields, field_name, file_index, max_values,
                                    mean_values, min_values, timesteps>>
                ELSE /\ reader_pc' = "loop"
                     /\ available_fields' = Tail(available_fields)
                     /\ field_name' = field
                     /\ file_index' = 0
                     /\ max_values' = <<>>
                     /\ mean_values' = <<>>
                     /\ min_values' = <<>>
                     /\ timesteps' = <<>>
                     /\ UNCHANGED reader_error
    /\ UNCHANGED <<reader_vtk_files, caller, time_evolution, runs>>
    /\ UNCHANGED beside_reader

\* line 178: every field is through, main() returns
MainFinish ==
    /\ reader_pc = "main"
    /\ available_fields = <<>>
    /\ reader_pc' = "done"
    /\ UNCHANGED <<reader_vtk_files, caller, available_fields, field_name, file_index,
                   max_values, mean_values, min_values, timesteps, time_evolution,
                   reader_error, runs>>
    /\ UNCHANGED beside_reader

\* lines 110-117: analyze_time_evolution is called on the reader with any
\* field name
AnalyzeCall ==
    /\ reader_pc = "ready"
    /\ caller \in {"none", "call"}
    /\ \E field \in FieldNames : field_name' = field
    /\ caller' = "call"
    /\ reader_pc' = "loop"
    /\ file_index' = 0
    /\ max_values' = <<>>
    /\ mean_values' = <<>>
    /\ min_values' = <<>>
    /\ timesteps' = <<>>
    /\ UNCHANGED <<reader_vtk_files, available_fields, time_evolution, reader_error, runs>>
    /\ UNCHANGED beside_reader

\* a slip of AnalyzeFile: the timestep of a file is recorded before the
\* field is looked up in it
AnalyzeFileTimestepFirst ==
    /\ reader_pc = "loop"
    /\ file_index < Len(reader_vtk_files)
    /\ LET filename == reader_vtk_files[file_index + 1]
           read == reader_read_vtk_file(input_dir[filename])
       IN /\ timesteps' = Append(timesteps, Timestep(FileName(filename)))
          /\ file_index' = file_index + 1
          /\ IF field_name \notin DOMAIN read \/ FieldValues(read[field_name]) = <<>>
             THEN UNCHANGED <<max_values, mean_values, min_values>>
             ELSE LET values == FieldValues(read[field_name])
                  IN /\ max_values' = Append(max_values, NpMax(values))
                     /\ mean_values' = Append(mean_values, NpMean(values))
                     /\ min_values' = Append(min_values, NpMin(values))
    /\ UNCHANGED <<reader_pc, reader_error>>
    /\ UNCHANGED <<reader_vtk_files, caller, available_fields, field_name, time_evolution, runs>>
    /\ UNCHANGED beside_reader

\* lines 119-138: one turn of the loop.  A file without the field is left
\* out; np.max of an array without elements raises, which ends the call
AnalyzeFile ==
    /\ reader_pc = "loop"
    /\ file_index < Len(reader_vtk_files)
    /\ LET filename == reader_vtk_files[file_index + 1]
           read == reader_read_vtk_file(input_dir[filename])
       IN IF field_name \notin DOMAIN read
          THEN /\ file_index' = file_index + 1
               /\ UNCHANGED <<reader_pc, reader_error, max_values, mean_values,
                              min_values, timesteps>>
          ELSE LET values == FieldValues(read[field_name])
               IN IF values = <<>>
                  THEN /\ reader_pc' = "raised"
                       /\ reader_error' = "ValueError"
                       /\ UNCHANGED <<file_index, max_values, mean_values, min_values,
                                      timesteps>>
                  ELSE /\ max_values' = Append(max_values, NpMax(values))
                       /\ mean_values' = Append(mean_values, NpMean(values))
                       /\ min_values' = Append(min_values, NpMin(values))
                       /\ timesteps' = Append(timesteps, Timestep(FileName(filename)))
                       /\ file_index' = file_index + 1
                       /\ UNCHANGED <<reader_pc, reader_error>>
    /\ UNCHANGED <<reader_vtk_files, caller, available_fields, field_name, time_evolution, runs>>
    /\ UNCHANGED beside_reader

\* lines 140-155: the series are plotted and the plot is saved under the
\* name of the field; the call returns to main() or to its caller
AnalyzeFinish ==
    /\ reader_pc = "loop"
    /\ file_index = Len(reader_vtk_files)
    /\ time_evolution' =
          DictSet(time_evolution, field_name,
                  [timesteps |-> timesteps, max_values |-> max_values,
                   mean_values |-> mean_values, min_values |-> min_values])
    /\ reader_pc' = IF caller = "main" THEN "main" ELSE "ready"
    /\ UNCHANGED <<reader_vtk_files, caller, available_fields, field_name, file_index,
                   max_values, mean_values, min_values, timesteps, reader_error, runs>>
    /\ UNCHANGED beside_reader

\* the script is run once more on the directory, or another reader is
\* constructed on it: the plots of the run before are still there
ReaderAgain ==
    /\ reader_pc \in {"ready", "done"}
    /\ runs < MaxPasses
    /\ reader_pc' = "new"
    /\ caller' = "none"
    /\ available_fields' = <<>>
    /\ field_name' = "none"
    /\ file_index' = 0
    /\ max_values' = <<>>
    /\ mean_values' = <<>>
    /\ min_values' = <<>>
    /\ timesteps' = <<>>
    /\ UNCHANGED <<reader_vtk_files, time_evolution, reader_error, runs>>
    /\ UNCHANGED beside_reader

ReaderNext ==
    \/ ReaderInit
    \/ MainStart
    \/ MainField
    \/ MainFinish
    \/ AnalyzeCall
    \/ AnalyzeFile
    \/ AnalyzeFinish
    \/ ReaderAgain

(***************************************************************************)
(* CloverLeafAnalyzer.__init__.                                            *)
(***************************************************************************)
\* a directory without snapshot files or with two, by either name, and
\* any solver log within the bounds
InitAnalyzer ==
    /\ \E S \in {{}, {<<9>>, <<1, 0>>}} : input_dir \in [S -> ValidFiles]
    /\ directory \in DirectoryNames
    /\ clover_out \in Logs
    /\ Fresh

\* lines 14-17: the snapshot files are listed and sorted by timestep,
\* then the solver log is parsed
AnalyzerInit ==
    /\ analyzer_pc = "new"
    /\ \E listing \in Orders(DOMAIN input_dir) :
          analyzer_vtk_files' = SortedByTimestep(directory, listing)
    /\ LET parsed == parse_output_file(clover_out)
       IN IF parsed.raised # "none"
          THEN /\ analyzer_pc' = "raised"
               /\ analyzer_error' = parsed.raised
               /\ UNCHANGED output_data
          ELSE /\ analyzer_pc' = "constructed"
               /\ output_data' = parsed.value
               /\ UNCHANGED analyzer_error
    /\ UNCHANGED <<clover_out, directory>>
    /\ UNCHANGED beside_analyzer

AnalyzerNext == AnalyzerInit

(***************************************************************************)
(* CloverLeafRunner.run_workflow.                                          *)
(***************************************************************************)
InitWorkflow ==
    /\ input_dir = [t \in {} |-> 0]
    /\ NoLog
    /\ Fresh

\* the status the process ends with: sys.exit(1) at line 128, and 1 as
\* well when an exception reaches the top of the interpreter
ExitStatus(err) == IF err = "none" THEN 0 ELSE 1

\* lines 166-187: the body of run_workflow as far as generate_input.
\* param_str is formatted, iter_dir made and clover.in written
RunWorkflow(cells, n) ==
    /\ workflows < MaxWorkflows
    /\ workflows' = workflows + 1
    /\ param_str' = ParamStr(cells)
    /\ iteration' = n
    /\ iter_dir' = IterationDir(ParamStr(cells), n)
    /\ output_dir' = Mkdir(output_dir, IterationDir(ParamStr(cells), n))
    /\ clover_dir' = Written(clover_dir, {CloverIn}, workflows + 1)
    /\ stages' = <<"input">>
    /\ runner_pc' = "input"
    /\ runner_error' = "none"
    /\ config_writes' = 0
    /\ produced' = {}
    /\ cleanups' = 0
    /\ result' = <<>>
    /\ UNCHANGED <<archives, archive_name, run_config>>

\* no call of run_workflow is under way, and the process of the main()
\* that made the last call has ended
CallEnded ==
    /\ runner_pc \in {"idle", "done", "failed"}
    /\ (runner_caller = "main" /\ runner_pc = "done" /\ should_cleanup) => cleanups = 1

\* lines 221-250: main() of a new process parses its arguments and calls
\* run_workflow, with the iteration run_workflow defaults to
MainRun ==
    /\ CallEnded
    /\ \E cells \in CellsArgs, cleanup \in BOOLEAN :
          /\ RunWorkflow(cells, 1)
          /\ should_cleanup' = cleanup
    /\ runner_caller' = "main"
    /\ UNCHANGED beside_runner

\* lines 166-187: run_workflow is called on a runner by other code than
\* main(), which goes on after a SystemExit
WorkflowStart ==
    /\ CallEnded
    /\ \E cells \in CellsArgs, n \in IterationArgs : RunWorkflow(cells, n)
    /\ should_cleanup' = FALSE
    /\ runner_caller' = "call"
    /\ UNCHANGED beside_runner

\* lines 115-116 and 107-110: the binary is missing and the solver is
\* built; a make that fails raises CalledProcessError
BuildCloverleaf ==
    /\ runner_pc = "input"
    /\ CloverLeafBinary \notin DOMAIN clover_dir
    /\ stages' = Append(stages, "build")
    /\ \E outcome \in {"ok", "CalledProcessError"} :
          IF outcome = "ok"
          THEN /\ clover_dir' = Written(clover_dir, {CloverLeafBinary}, workflows)
               /\ UNCHANGED <<runner_pc, runner_error>>
          ELSE /\ runner_pc' = "failed"
               /\ runner_error' = outcome
               /\ UNCHANGED clover_dir
    /\ UNCHANGED <<output_dir, archives, param_str, iteration, iter_dir, archive_name,
                   run_config, config_writes, produced, workflows, runner_caller,
                   should_cleanup, cleanups, result>>
    /\ UNCHANGED beside_runner

\* the solver runs and its return code is not looked at
RunSolverUnchecked ==
    /\ runner_pc = "input"
    /\ CloverLeafBinary \in DOMAIN clover_dir
    /\ stages' = Append(stages, "solver")
    /\ produced' \in SolverOutputs
    /\ clover_dir' = Written(clover_dir, produced', workflows)
    /\ \E returncode \in {0, 1} : result' = <<returncode>>
    /\ runner_pc' = "simulated"
    /\ UNCHANGED <<output_dir, archives, param_str, iteration, iter_dir, archive_name,
                   run_config, config_writes, workflows, runner_caller, should_cleanup,
                   cleanups, runner_error>>
    /\ UNCHANGED beside_runner

\* lines 119-130: the solver runs in clover_dir and writes its files;
\* when it returns another code than 0, sys.exit(1) ends the call
RunSolver ==
    /\ runner_pc = "input"
    /\ CloverLeafBinary \in DOMAIN clover_dir
    /\ stages' = Append(stages, "solver")
    /\ produced' \in SolverOutputs
    /\ clover_dir' = Written(clover_dir, produced', workflows)
    /\ \E returncode \in {0, 1} :
          /\ result' = <<returncode>>
          /\ runner_pc' = IF returncode = 0 THEN "simulated" ELSE "failed"
          /\ runner_error' = IF returncode = 0 THEN "none" ELSE "SystemExit"
    /\ UNCHANGED <<output_dir, archives, param_str, iteration, iter_dir, archive_name,
                   run_config, config_writes, workflows, runner_caller, should_cleanup,
                   cleanups>>
    /\ UNCHANGED beside_runner

\* lines 132-146, called at line 194: every *.vtk of clover_dir, and
\* clover.out and clover.visit if they are there, are moved to
\* iteration_<iteration>
ProcessFiles ==
    /\ runner_pc = "simulated"
    /\ stages' = Append(stages, "move")
    /\ LET dir == IterationDir(NoParam, iteration)
           moved == {f \in DOMAIN clover_dir : IsVtk(f) \/ f \in {CloverOut, CloverVisit}}
       IN /\ output_dir' = [Mkdir(output_dir, dir) EXCEPT
                               ![dir] = Moved(clover_dir, moved, @)]
          /\ clover_dir' = Removed(clover_dir, moved)
    /\ runner_pc' = "processed"
    /\ UNCHANGED <<archives, param_str, iteration, iter_dir, archive_name, run_config,
                   config_writes, produced, runner_error, workflows, runner_caller,
                   should_cleanup, cleanups, result>>
    /\ UNCHANGED beside_runner

\* lines 148-155, called at line 199: the directory
\* iteration_<param_str>_<iteration> is added to a new archive
CreateArchive ==
    /\ runner_pc = "processed"
    /\ stages' = Append(stages, "archive")
    /\ LET dir == IterationDir(param_str, iteration)
           name == [param |-> param_str, timestamp |-> workflows, iteration |-> iteration]
       IN /\ dir \in DOMAIN output_dir
          /\ archive_name' = name
          /\ archives' = DictSet(archives, name,
                                 {[dir |-> dir, file |-> f] : f \in DOMAIN output_dir[dir]})
    /\ runner_pc' = "archived"
    /\ UNCHANGED <<clover_dir, output_dir, param_str, iteration, iter_dir, run_config,
                   config_writes, produced, runner_error, workflows, runner_caller,
                   should_cleanup, cleanups, result>>
    /\ UNCHANGED beside_runner

\* lines 201-219: config_data is dumped to run_config.json of iter_dir
\* and run_workflow returns
WriteConfig ==
    /\ runner_pc = "archived"
    /\ stages' = Append(stages, "config")
    /\ run_config' = [cells |-> IF param_str = ParamStr(32) THEN 32 ELSE 64,
                      output_dir |-> iter_dir]
    /\ output_dir' = [output_dir EXCEPT
                         ![iter_dir] = Written(@, {RunConfigName}, workflows)]
    /\ config_writes' = config_writes + 1
    /\ runner_pc' = "done"
    /\ UNCHANGED <<clover_dir, archives, param_str, iteration, iter_dir, archive_name,
                   produced, runner_error, workflows, runner_caller, should_cleanup,
                   cleanups, result>>
    /\ UNCHANGED beside_runner

\* lines 252-253 and 157-164: run_workflow has returned to main() and
\* --cleanup was given; make clean removes the binary, and a make clean
\* that fails is logged
Cleanup ==
    /\ runner_caller = "main"
    /\ runner_pc = "done"
    /\ should_cleanup
    /\ cleanups = 0
    /\ cleanups' = 1
    /\ \E outcome \in {"ok", "CalledProcessError"} :
          clover_dir' = IF outcome = "ok"
                        THEN Removed(clover_dir, {CloverLeafBinary})
                        ELSE clover_dir
    /\ UNCHANGED <<output_dir, archives, runner_pc, param_str, iteration, iter_dir,
                   archive_name, run_config, config_writes, produced, runner_error,
                   workflows, runner_caller, should_cleanup, result, stages>>
    /\ UNCHANGED beside_runner

\* the steps of a process once main() has made its call
WorkflowSteps ==
    BuildCloverleaf \/ RunSolver \/ ProcessFiles \/ CreateArchive \/ WriteConfig \/ Cleanup

WorkflowNext ==
    \/ MainRun
    \/ WorkflowStart
    \/ BuildCloverleaf
    \/ RunSolver
    \/ ProcessFiles
    \/ CreateArchive
    \/ WriteConfig
    \/ Cleanup

(***************************************************************************)
(* CloverVisualizer.process_all_files called again and again on a          *)
(* directory that changes.                                                 *)
(***************************************************************************)
\* the snapshot files of a directory that changes between the calls: grids
\* of 2 by 2 and of 2 by 1 points with both velocity components
RepeatedFiles ==
    {[nx |-> 2, ny |-> ny, cell |-> [n \in {} |-> 0],
      point |-> [n \in {"x_vel", "y_vel"} |-> ny * 2]] : ny \in {1, 2}}

\* process_all_files has returned and is about to be called again; before
\* that a snapshot file of input_dir is removed, or written by the solver
DirectoryChanges ==
    /\ pc = "idle"
    /\ passes > 0
    /\ \/ \E t \in DOMAIN input_dir :
             input_dir' = [u \in DOMAIN input_dir \ {t} |-> input_dir[u]]
       \/ /\ Cardinality(DOMAIN input_dir) < MaxFiles
          /\ \E t \in EvolutionTokens \ DOMAIN input_dir, f \in RepeatedFiles :
                input_dir' = [u \in DOMAIN input_dir \cup {t} |->
                                 IF u = t THEN f ELSE input_dir[u]]
    /\ UNCHANGED <<npy_dir, pc, vtk_files, i, data, coords_2d, error, visited, saved, passes>>
    /\ UNCHANGED beside_pass

RepeatedNext == Next \/ DirectoryChanges

\* a directory of up to MaxFiles such files
InitRepeated ==
    /\ \E S \in SubsetsUpTo(EvolutionTokens, MaxFiles) : input_dir \in [S -> RepeatedFiles]
    /\ NoLog
    /\ Fresh

(***************************************************************************)
(* CloverLeafFinalStateAnalyzer.                                           *)
(***************************************************************************)
\* a directory, named "." or "out", of up to MaxFiles files
InitFinal ==
    /\ \E S \in SubsetsUpTo(EvolutionTokens, MaxFiles) : input_dir \in [S -> FinalFiles]
    /\ clover_out = [state |-> "missing", content |-> <<>>]
    /\ directory \in DirectoryNames
    /\ Fresh

\* lines 13-21: the files are listed, in any order, and sorted by the
\* integer of the piece before the extension
FinalInit ==
    /\ final_pc = "new"
    /\ \E listing \in Orders(DOMAIN input_dir) :
          final_vtk_files' = SortedByKey(directory, listing)
    /\ final_pc' = "constructed"
    /\ UNCHANGED <<final_file, final_plot, final_error>>
    /\ UNCHANGED beside_final

\* lines 23-27: get_final_state is called
GetFinalState ==
    /\ final_pc = "constructed"
    /\ LET final == get_final_state(final_vtk_files)
       IN /\ final_pc' = IF final.raised = "none" THEN "found" ELSE "raised"
          /\ final_error' = final.raised
          /\ final_file' = final.value
    /\ UNCHANGED <<final_vtk_files, final_plot>>
    /\ UNCHANGED beside_final

\* lines 62-141: plot_final_state_velocity is called.  The final file is
\* read; without both components the method returns, else the components
\* are reshaped and every skip-th vector is drawn
PlotFinalStateVelocity ==
    /\ final_pc = "constructed"
    /\ LET final == get_final_state(final_vtk_files)
           f == input_dir[final.value]
           nx == f.nx
           ny == f.ny
           skip == Skip(nx, ny)
           x_sub == SliceStep(XCoordinates(f), skip)
           y_sub == SliceStep(YCoordinates(f), skip)
       IN /\ final_file' = final.value
          /\ IF final.raised # "none"
             THEN /\ final_pc' = "raised"
                  /\ final_error' = final.raised
                  /\ UNCHANGED final_plot
             ELSE IF ~({"x_vel", "y_vel"} \subseteq DOMAIN f.point)
             THEN /\ final_pc' = "returned"
                  /\ UNCHANGED <<final_plot, final_error>>
             ELSE IF (\E n \in {"x_vel", "y_vel"} : f.point[n] # ny * nx)
                     \/ x_sub.raised # "none"
             THEN /\ final_pc' = "raised"
                  /\ final_error' = "ValueError"
                  /\ UNCHANGED final_plot
             ELSE /\ final_pc' = "plotted"
                  /\ final_plot' = [skip |-> skip, x_sub |-> x_sub.value,
                                    y_sub |-> y_sub.value,
                                    shape |-> <<Len(y_sub.value), Len(x_sub.value)>>]
                  /\ UNCHANGED final_error
    /\ UNCHANGED final_vtk_files
    /\ UNCHANGED beside_final

FinalNext == FinalInit \/ GetFinalState \/ PlotFinalStateVelocity

(***************************************************************************)
(* The two visualizers reading one file.                                   *)
(***************************************************************************)
InitVariants ==
    /\ input_dir \in [{<<0>>} -> VariantFiles]
    /\ NoLog
    /\ Fresh

\* clover_vis.py, lines 27-75: CloverVisualizer.read_vtk_file is called
ReadVis ==
    /\ "vis" \notin readers_called
    /\ readers_called' = readers_called \cup {"vis"}
    /\ vis_result' = read_vtk_file(input_dir[<<0>>])
    /\ UNCHANGED v2_result
    /\ UNCHANGED beside_variants

\* visualize_V2.py, lines 19-74: CloverLeafVisualizer.read_vtk_file is
\* called
ReadV2 ==
    /\ "v2" \notin readers_called
    /\ readers_called' = readers_called \cup {"v2"}
    /\ v2_result' = v2_read_vtk_file(input_dir[<<0>>])
    /\ UNCHANGED vis_result
    /\ UNCHANGED beside_variants

VariantsNext == ReadVis \/ ReadV2

(***************************************************************************)
(* old_scripts/visualize_V2.py run as a script.  Its read_vtk_file,        *)
(* save_timestep_data and the loop of its process_all_files are those of   *)
(* clover_vis.py, line for line.                                           *)
(***************************************************************************)
InitScript ==
    /\ \E S \in SubsetsUpTo(EvolutionTokens, MaxFiles) : input_dir \in [S -> PipelineFiles]
    /\ NoLog
    /\ Fresh

\* lines 192-197: the arguments are parsed and the visualizer made; with
\* --save-npy process_all_files is called
ScriptStart ==
    /\ script_pc = "new"
    /\ save_npy' \in BOOLEAN
    /\ script_pc' = IF save_npy' THEN "saving" ELSE "animating"
    /\ UNCHANGED animations
    /\ UNCHANGED <<pass_vars, beside_script>>

\* lines 105-106
ScriptProcessStart == script_pc = "saving" /\ ProcessStart

\* lines 108-111
ScriptProcessFile == script_pc = "saving" /\ ProcessFile

\* lines 113-115: the loop is through; return metadata looks up a name
\* that is bound nowhere and raises NameError
ScriptProcessReturn ==
    /\ script_pc = "saving"
    /\ pc = "loop"
    /\ i = Len(vtk_files)
    /\ pc' = "raised"
    /\ error' = [kind |-> "NameError", stage |-> "return"]
    /\ UNCHANGED <<input_dir, npy_dir, vtk_files, i, data, coords_2d, visited, saved, passes>>
    /\ UNCHANGED <<script_vars, beside_script>>

\* line 197: an exception that leaves process_all_files ends the script
ScriptDies ==
    /\ script_pc = "saving"
    /\ pc = "raised"
    /\ script_pc' = "died"
    /\ UNCHANGED <<save_npy, animations>>
    /\ UNCHANGED <<pass_vars, beside_script>>

\* lines 200 and 117-172: create_animation of velocity_magnitude; no
\* file, no animation; a file that cannot be read or is without the
\* variable raises
ScriptCreateAnimation ==
    /\ script_pc = "animating"
    /\ IF DOMAIN input_dir = {}
       THEN /\ script_pc' = "ended"
            /\ UNCHANGED animations
       ELSE IF \A t \in DOMAIN input_dir :
                  LET read == read_vtk_file(input_dir[t])
                  IN read.ok /\ "velocity_magnitude" \in DOMAIN read.point_data
       THEN /\ script_pc' = "ended"
            /\ animations' = animations + 1
       ELSE /\ script_pc' = "died"
            /\ UNCHANGED animations
    /\ UNCHANGED save_npy
    /\ UNCHANGED <<pass_vars, beside_script>>

ScriptNext ==
    \/ ScriptStart
    \/ ScriptProcessStart
    \/ ScriptProcessFile
    \/ ScriptProcessReturn
    \/ ScriptDies
    \/ ScriptCreateAnimation

(***************************************************************************)
(* CloverLeafRunner.__init__: the search for the repository.               *)
(***************************************************************************)
\* a working directory of up to MaxDepth names; any of it and of its
\* ancestors hold a CloverLeaf_Serial
InitSearch ==
    /\ input_dir = [t \in {} |-> 0]
    /\ NoLog
    /\ FreshProgram
    /\ cwd \in Paths
    /\ holders \in SUBSET Ancestors(cwd)
    /\ search_pc = "new"
    /\ current = Root
    /\ base_dir = Root

\* lines 18-19: base_dir is given
RunnerGiven ==
    /\ search_pc = "new"
    /\ base_dir' \in Ancestors(cwd)
    /\ search_pc' = "given"
    /\ UNCHANGED <<cwd, holders, current>>
    /\ UNCHANGED beside_search

\* lines 20-22: base_dir is not given, the search starts at Path.cwd()
SearchStart ==
    /\ search_pc = "new"
    /\ current' = cwd
    /\ search_pc' = "loop"
    /\ UNCHANGED <<cwd, holders, base_dir>>
    /\ UNCHANGED beside_search

\* lines 23-27: one turn of the loop
SearchStep ==
    /\ search_pc = "loop"
    /\ current # Parent(current)
    /\ IF current \in holders
       THEN /\ base_dir' = current
            /\ search_pc' = "found"
            /\ UNCHANGED current
       ELSE /\ current' = Parent(current)
            /\ UNCHANGED <<base_dir, search_pc>>
    /\ UNCHANGED <<cwd, holders>>
    /\ UNCHANGED beside_search

\* lines 23 and 28-29: the condition of the loop is false, the else
\* clause raises FileNotFoundError
SearchEnd ==
    /\ search_pc = "loop"
    /\ current = Parent(current)
    /\ search_pc' = "raised"
    /\ UNCHANGED <<cwd, holders, current, base_dir>>
    /\ UNCHANGED beside_search

SearchNext == RunnerGiven \/ SearchStart \/ SearchStep \/ SearchEnd

(***************************************************************************)
(* The specifications.                                                     *)
(***************************************************************************)
Spec == Init /\ [][Next]_vars

SpecBatch == InitBatch /\ [][Next]_vars

SpecSnapshot == InitSnapshot /\ [][Next]_vars

SpecEvolution == InitEvolution /\ [][ReaderNext]_vars

SpecAnalyzer == InitAnalyzer /\ [][AnalyzerNext]_vars

SpecWorkflow == InitWorkflow /\ [][WorkflowNext]_vars

\* a process that has called run_workflow runs on until it ends; nothing
\* obliges anyone to start another one
SpecMain == InitWorkflow /\ [][WorkflowNext]_vars /\ WF_vars(WorkflowSteps)

SpecFinal == InitFinal /\ [][FinalNext]_vars

SpecRepeated == InitRepeated /\ [][RepeatedNext]_vars

SpecVariants == InitVariants /\ [][VariantsNext]_vars

SpecScript == InitScript /\ [][ScriptNext]_vars

SpecSearch == InitSearch /\ [][SearchNext]_vars

\* the bundles and the plots are made of one directory, by a visualizer
\* and a reader that know nothing of each other
AggregateNext == Next \/ ReaderNext

\* a directory of up to MaxFiles files, each a 2 x 2 grid with both
\* components or a 2 x 1 grid without y_vel
InitAggregate ==
    /\ \E S \in SubsetsUpTo(EvolutionTokens, MaxFiles) :
          input_dir \in [S -> {f \in EvolutionFiles :
                                  /\ f.nx > 0
                                  /\ \A n \in DOMAIN f.point : f.point[n] = f.ny * f.nx}]
    /\ NoLog
    /\ Fresh

SpecAggregate == InitAggregate /\ [][AggregateNext]_vars

\* a directory of 3 snapshots on a grid of 4 by 3 points whose only arrays
\* are the point arrays x_vel, 3 everywhere, and y_vel, 4 everywhere
InitScenario ==
    /\ \E S \in SUBSET EvolutionTokens :
          /\ Cardinality(S) = 3
          /\ input_dir = [t \in S |->
                            [nx |-> 4, ny |-> 3, cell |-> [n \in {} |-> 0],
                             point |-> [n \in {"x_vel", "y_vel"} |-> 12],
                             fill |-> [n \in {"x_vel", "y_vel"} |->
                                          IF n = "x_vel" THEN 3 ELSE 4]]]
    /\ NoLog
    /\ Fresh

SpecScenario == InitScenario /\ [][AggregateNext]_vars

(***************************************************************************)
(* What the claims speak of.                                               *)
(***************************************************************************)
\* the timestep token of a file of the directory, as an integer
Token(tok) == Timestep(FileName(tok))

\* the file read_vtk_file was called with last
LastFile == input_dir[visited[Len(visited)]]

\* a file whose arrays have the element counts of its grid
CountsMatch(f) ==
    /\ \A n \in DOMAIN f.point : f.point[n] = f.ny * f.nx
    /\ \A n \in DOMAIN f.cell : f.cell[n] = (f.ny - 1) * (f.nx - 1)

\* reading a bundle back: stack[k] (from 0) of the 3-D array
Plane(stack, k) ==
    LET size == stack.shape[2] * stack.shape[3]
    IN Array(<<stack.shape[2], stack.shape[3]>>,
             SubSeq(stack.data, k * size + 1, (k + 1) * size))

\* an array of the file, as read_vtk_file returns it when it fits
FileArray(name, n, r, c) == Array(<<r, c>>, ArrayValues(name, n))

(***************************************************************************)
(* C1: when the timestep tokens of the files are distinct integers,        *)
(* process_all_files visits the files in strictly increasing order of the  *)
(* integer token, also when the tokens differ in their number of digits.   *)
(* The code sorts the names as text, so 10 is visited before 9.            *)
(***************************************************************************)
C1_VisitedInTokenOrder ==
    (\A a, b \in DOMAIN input_dir : a # b => Token(a) # Token(b))
    => \A k \in 1..(Len(visited) - 1) : Token(visited[k]) < Token(visited[k + 1])

(***************************************************************************)
(* C2: every bundle file written is named by the zero-padded 4-digit       *)
(* timestep token of the snapshot file it was made from, not by the        *)
(* position of that file in the list.  The code names it by the position.  *)
(***************************************************************************)
C2_BundleNamedByToken ==
    \A k \in DOMAIN saved : saved[k].name = Fmt04d(Token(saved[k].file))

(***************************************************************************)
(* C3: when two files of the directory have names that parse to the same   *)
(* timestep token, the pass raises before any bundle file is written.  The *)
(* code never compares tokens and packs both files.                        *)
(***************************************************************************)
C3_DuplicateTokenRaisesFirst ==
    (\E a, b \in DOMAIN input_dir : a # b /\ Token(a) = Token(b))
    => (saved = <<>> /\ npy_dir = EmptyDict /\ pc # "done")

(***************************************************************************)
(* C4: for every snapshot with x_vel, y_vel and velocity_magnitude point   *)
(* fields a bundle is written; it is a stack of exactly 5 arrays of shape  *)
(* (ny, nx) in the order magnitude, x_vel, y_vel, x grid, y grid, and      *)
(* stack[0], stack[1], stack[2] are the snapshot's magnitude, x_vel and    *)
(* y_vel arrays unchanged.                                                 *)
(***************************************************************************)
C4_BundleStackRoundTrip ==
    (data.ok /\ Range(RequiredFields) \subseteq DOMAIN data.point_data)
    => /\ saved # <<>>
       /\ saved[Len(saved)].file = visited[Len(visited)]
       /\ LET stack == npy_dir[saved[Len(saved)].name]
          IN /\ stack.shape = <<5, Len(data.y_coords), Len(data.x_coords)>>
             /\ Len(stack.data) = 5 * Len(data.y_coords) * Len(data.x_coords)
             /\ Plane(stack, 0) = data.point_data["velocity_magnitude"]
             /\ Plane(stack, 1) = data.point_data["x_vel"]
             /\ Plane(stack, 2) = data.point_data["y_vel"]
             /\ Plane(stack, 3) = coords_2d.x
             /\ Plane(stack, 4) = coords_2d.y

\* a 1 x 2 snapshot with all three fields was read, packed and the pass
\* returned
C4_Witness ==
    /\ pc = "done"
    /\ data.ok
    /\ Range(RequiredFields) \subseteq DOMAIN data.point_data
    /\ Len(data.x_coords) = 2 /\ Len(data.y_coords) = 1
    /\ DOMAIN npy_dir = {Fmt04d(0)}

(***************************************************************************)
(* C5: for every x axis of length nx and y axis of length ny the two       *)
(* coordinate grids save_timestep_data builds have shape (ny, nx), with    *)
(* x_grid[i][j] = x_axis[j] and y_grid[i][j] = y_axis[i] for all i < ny    *)
(* and j < nx.                                                             *)
(***************************************************************************)
C5_CoordinateGrids ==
    data.ok
    => LET nx == Len(data.x_coords)
           ny == Len(data.y_coords)
       IN /\ coords_2d.x.shape = <<ny, nx>>
          /\ coords_2d.y.shape = <<ny, nx>>
          /\ Len(coords_2d.x.data) = ny * nx
          /\ Len(coords_2d.y.data) = ny * nx
          /\ \A r \in 0..(ny - 1) : \A c \in 0..(nx - 1) :
                /\ At(coords_2d.x, r, c) = data.x_coords[c + 1]
                /\ At(coords_2d.y, r, c) = data.y_coords[r + 1]

\* the grids of a snapshot with 1 grid line in x and 2 in y were built
C5_Witness ==
    /\ data.ok
    /\ Len(data.x_coords) = 1 /\ Len(data.y_coords) = 2
    /\ coords_2d.y.data = <<11, 12>>

(***************************************************************************)
(* C6: every result read_vtk_file returns has point arrays (the derived    *)
(* velocity_magnitude among them) of shape (len(y_coords), len(x_coords))  *)
(* and cell arrays of shape (len(y_coords)-1, len(x_coords)-1).  On a grid *)
(* with an empty axis the reshape to (.., -1) infers a dimension and the   *)
(* cell array comes back with another shape.                               *)
(***************************************************************************)
C6_ShapeInvariant ==
    data.ok
    => /\ \A n \in DOMAIN data.point_data :
             data.point_data[n].shape = <<Len(data.y_coords), Len(data.x_coords)>>
       /\ \A n \in DOMAIN data.cell_data :
             data.cell_data[n].shape = <<Len(data.y_coords) - 1, Len(data.x_coords) - 1>>

(***************************************************************************)
(* C7: when a point array of the file has an element count other than      *)
(* ny*nx, or a cell array one other than (ny-1)*(nx-1), read_vtk_file      *)
(* raises and returns no snapshot.  On a grid with an empty axis the cell  *)
(* arrays are reshaped to fit instead.                                     *)
(***************************************************************************)
C7_CountMismatchRaises ==
    (visited # <<>> /\ ~CountsMatch(LastFile))
    => (error.stage = "read" /\ ~data.ok)

(***************************************************************************)
(* C8: a file whose x or y axis has length zero always makes read_vtk_file *)
(* raise, whatever arrays it carries, and no snapshot is returned.  The    *)
(* code checks no axis length: with no arrays nothing is reshaped and the  *)
(* snapshot is returned.                                                   *)
(***************************************************************************)
C8_DegenerateGridRaises ==
    (visited # <<>> /\ (LastFile.nx = 0 \/ LastFile.ny = 0))
    => (error.stage = "read" /\ ~data.ok)

(***************************************************************************)
(* C9, as claimed: for a snapshot with x_vel and no y_vel point field,     *)
(* read_vtk_file returns normally with no velocity_magnitude field,        *)
(* save_timestep_data raises without writing a bundle, and                 *)
(* process_all_files ends with that exception.  A file that carries a      *)
(* point array called velocity_magnitude keeps it.                         *)
(***************************************************************************)
\* the file read last is a snapshot (no axis is empty and the arrays have
\* the element counts of the grid) with x_vel and without y_vel
C9_Case ==
    /\ visited # <<>>
    /\ LastFile.nx >= 1 /\ LastFile.ny >= 1
    /\ CountsMatch(LastFile)
    /\ "x_vel" \in DOMAIN LastFile.point
    /\ "y_vel" \notin DOMAIN LastFile.point

C9_PackRaised ==
    /\ error = [kind |-> "KeyError", stage |-> "save"]
    /\ pc = "raised"
    /\ saved = <<>>
    /\ npy_dir = EmptyDict

C9_NoMagnitudeFieldAtAll ==
    C9_Case
    => /\ data.ok
       /\ "velocity_magnitude" \notin DOMAIN data.point_data
       /\ C9_PackRaised

(***************************************************************************)
(* C9, amended: for a snapshot with x_vel and no y_vel point field,        *)
(* read_vtk_file returns normally and derives no velocity_magnitude: the   *)
(* point fields returned are exactly the point arrays of the file, so a    *)
(* velocity_magnitude field is there only when the file carries an array   *)
(* of that name; save_timestep_data raises without writing a bundle, and   *)
(* process_all_files ends with that exception.                             *)
(***************************************************************************)
C9_NoMagnitudeDerived ==
    C9_Case
    => /\ data.ok
       /\ data.point_data =
             [n \in DOMAIN LastFile.point |->
                 FileArray(n, LastFile.point[n], LastFile.ny, LastFile.nx)]
       /\ C9_PackRaised

\* a 2 x 1 snapshot with x_vel and its own velocity_magnitude array, and no
\* y_vel, was read and the pack of it raised
C9_Witness ==
    /\ C9_Case
    /\ LastFile.nx = 2 /\ LastFile.ny = 1
    /\ "velocity_magnitude" \in DOMAIN LastFile.point
    /\ pc = "raised"

(***************************************************************************)
(* C10: when reading or packing the k-th file fails, the pass ends there:  *)
(* no bundle is written for the k-th file, no later file is read and no    *)
(* bundle is written for a later file; and every bundle file in the        *)
(* bundle directory is a complete stack of 5 arrays.                       *)
(***************************************************************************)
C10_CompleteStack(stack) ==
    /\ Len(stack.shape) = 3
    /\ stack.shape[1] = 5
    /\ Len(stack.data) = 5 * stack.shape[2] * stack.shape[3]

C10_FailFast ==
    /\ \A n \in DOMAIN npy_dir : C10_CompleteStack(npy_dir[n])
    /\ error.kind # "none"
       => /\ pc = "raised"
          /\ ~ENABLED Next
          /\ i < Len(vtk_files)
          /\ visited = SubSeq(vtk_files, 1, i + 1)
          /\ saved = [k \in 1..i |-> [file |-> vtk_files[k], name |-> Fmt04d(k - 1)]]
          /\ DOMAIN npy_dir = {Fmt04d(k) : k \in 0..(i - 1)}

\* the second of three files could not be read: one bundle is written and
\* one file is left unread
C10_Witness ==
    /\ error = [kind |-> "ValueError", stage |-> "read"]
    /\ Len(vtk_files) = 3
    /\ i = 1
    /\ Len(visited) = 2
    /\ DOMAIN npy_dir = {Fmt04d(0)}

(***************************************************************************)
(* C11: read_vtk_file derives a velocity_magnitude point field exactly     *)
(* when the file has both an x_vel and a y_vel point array (without one of *)
(* them the point fields returned are the arrays of the file and nothing   *)
(* is raised for it); the derived field has the shape of the components    *)
(* and at every grid point it is not negative and its square is            *)
(* x_vel^2 + y_vel^2.                                                      *)
(***************************************************************************)
C11_MagnitudeDerived ==
    (visited # <<>> /\ data.ok)
    => LET file == [n \in DOMAIN LastFile.point |->
                       FileArray(n, LastFile.point[n], LastFile.ny, LastFile.nx)]
           fields == data.point_data
       IN IF {"x_vel", "y_vel"} \subseteq DOMAIN LastFile.point
          THEN /\ DOMAIN fields = DOMAIN file \cup {"velocity_magnitude"}
               /\ \A n \in DOMAIN file \ {"velocity_magnitude"} : fields[n] = file[n]
               /\ fields["velocity_magnitude"].shape = fields["x_vel"].shape
               /\ Len(fields["velocity_magnitude"].data) = Len(fields["x_vel"].data)
               /\ \A k \in DOMAIN fields["x_vel"].data :
                     LET m == fields["velocity_magnitude"].data[k]
                         x == fields["x_vel"].data[k]
                         y == fields["y_vel"].data[k]
                     IN m >= 0 /\ m * m = x * x + y * y
          ELSE fields = file

\* a 2 x 2 snapshot with both components and an array of its own called
\* velocity_magnitude was read: the derived field took its place
C11_Witness ==
    /\ visited # <<>>
    /\ data.ok
    /\ DOMAIN LastFile.point = {"x_vel", "y_vel", "velocity_magnitude"}
    /\ LastFile.nx = 2 /\ LastFile.ny = 2
    /\ data.point_data["velocity_magnitude"].data = <<5, 10, 15, 20>>

(***************************************************************************)
(* C12: a snapshot does not change once read_vtk_file has returned it:     *)
(* after save_timestep_data and to the end of the pass its x_coords,       *)
(* y_coords, point_data and cell_data are what read_vtk_file returned for  *)
(* the file, whether the pack succeeded or raised, and no field is added   *)
(* to its point fields after the return.                                   *)
(***************************************************************************)
C12_SnapshotUnchanged ==
    (visited # <<>> /\ data.ok) => data = read_vtk_file(LastFile)

\* a 2 x 1 snapshot was read and packed, and the pass returned
C12_Witness ==
    /\ pc = "done"
    /\ data.ok
    /\ Len(data.x_coords) = 2 /\ Len(data.y_coords) = 1
    /\ saved # <<>>
    /\ npy_dir[Fmt04d(0)].shape = <<5, 1, 2>>

(***************************************************************************)
(* C13: in analyze_time_evolution, whatever the field name and the files,  *)
(* the max, mean, min and timesteps series hold exactly one entry for      *)
(* every file the loop is through that contains the field, in the order    *)
(* the files were visited, and none for a file without the field; the four *)
(* series are equally long, and the k-th timestep is the token of the file *)
(* the k-th maximum, mean and minimum were taken from.  The same holds of  *)
(* every series that was plotted.                                          *)
(***************************************************************************)
\* the files among the first n of the list that contain the field
C13_FilesWith(field, n) ==
    SelectSeq(SubSeq(reader_vtk_files, 1, n),
              LAMBDA t : field \in DOMAIN input_dir[t].point)

\* the series are those of the files, one entry a file
C13_SeriesOf(series, files, field) ==
    /\ Len(series.timesteps) = Len(files)
    /\ Len(series.max_values) = Len(files)
    /\ Len(series.mean_values) = Len(files)
    /\ Len(series.min_values) = Len(files)
    /\ \A k \in DOMAIN files :
          LET values == FileValues(input_dir[files[k]], input_dir[files[k]].point)[field]
          IN /\ series.timesteps[k] = Token(files[k])
             /\ series.max_values[k] = NpMax(values)
             /\ series.mean_values[k] = NpMean(values)
             /\ series.min_values[k] = NpMin(values)

C13_SeriesAligned ==
    /\ C13_SeriesOf([timesteps |-> timesteps, max_values |-> max_values,
                     mean_values |-> mean_values, min_values |-> min_values],
                    C13_FilesWith(field_name, file_index), field_name)
    /\ \A field \in DOMAIN time_evolution :
          C13_SeriesOf(time_evolution[field],
                       C13_FilesWith(field, Len(reader_vtk_files)), field)

\* the series of y_vel were plotted for a directory whose first file has
\* no y_vel and whose second file has one: one entry, of the second file
C13_Witness ==
    /\ DOMAIN input_dir = {<<0>>, <<1, 0>>}
    /\ reader_vtk_files = <<(<<0>>), (<<1, 0>>)>>
    /\ "y_vel" \notin DOMAIN input_dir[<<0>>].point
    /\ "y_vel" \in DOMAIN input_dir[<<1, 0>>].point
    /\ input_dir[<<1, 0>>].point["y_vel"] = 4
    /\ file_index = 2
    /\ "y_vel" \in DOMAIN time_evolution
    /\ time_evolution["y_vel"].timesteps = <<10>>
    /\ time_evolution["y_vel"].max_values = <<16>>
    /\ time_evolution["y_vel"].min_values = <<4>>

(***************************************************************************)
(* C14: a second run on the unchanged directory gives what the first run   *)
(* gave, in whatever order the directory is listed each time: a second     *)
(* call of process_all_files visits the files in the order of the first    *)
(* and leaves the bundle directory, names and contents, as the first left  *)
(* it; a second reader has the file list of the first, and a series that   *)
(* is plotted again is the series plotted before.                          *)
(***************************************************************************)
C14_RerunIdentical ==
    [][/\ (passes >= 1 /\ pc = "idle" /\ pc' = "loop") => vtk_files' = vtk_files
       /\ passes >= 1 => npy_dir' = npy_dir
       /\ (runs >= 1 /\ reader_pc = "new" /\ reader_pc' = "ready")
             => reader_vtk_files' = reader_vtk_files
       /\ \A field \in DOMAIN time_evolution :
             /\ field \in DOMAIN time_evolution'
             /\ time_evolution'[field] = time_evolution[field]]_vars

\* two files were packed twice and analysed by main() twice
C14_Witness ==
    /\ passes = 2
    /\ Len(vtk_files) = 2
    /\ DOMAIN npy_dir = {Fmt04d(0), Fmt04d(1)}
    /\ runs = 2
    /\ reader_pc = "done"
    /\ caller = "main"
    /\ Len(reader_vtk_files) = 2
    /\ DOMAIN time_evolution = {"x_vel", "y_vel"}

(***************************************************************************)
(* C15: for a directory of 3 snapshots on a grid with nx = 4 and ny = 3    *)
(* whose only point fields are x_vel = 3 and y_vel = 4 everywhere, the 3   *)
(* bundles have magnitude 5 at every grid point, and when main() has       *)
(* returned the summary holds max, mean and min series of the magnitude    *)
(* field that are 5 at each of the 3 timesteps.  The reader of main()      *)
(* derives no magnitude: the summary has series of x_vel and y_vel only.   *)
(***************************************************************************)
\* when the pass has returned there are 3 bundles, each with the magnitude
\* 5 at all 12 grid points
C15_BundlesMagnitudeFive ==
    pc = "done"
    => /\ Cardinality(DOMAIN npy_dir) = 3
       /\ \A n \in DOMAIN npy_dir :
             /\ npy_dir[n].shape = <<5, 3, 4>>
             /\ Plane(npy_dir[n], 0).data = [k \in 1..12 |-> 5]

\* when main() has returned the summary has the series of the magnitude
\* field, 5 at each of the 3 timesteps
C15_SummaryMagnitudeFive ==
    reader_pc = "done"
    => /\ "velocity_magnitude" \in DOMAIN time_evolution
       /\ LET series == time_evolution["velocity_magnitude"]
          IN /\ Len(series.timesteps) = 3
             /\ series.max_values = <<5, 5, 5>>
             /\ series.min_values = <<5, 5, 5>>
             /\ Len(series.mean_values) = 3
             /\ \A k \in DOMAIN series.mean_values :
                   series.mean_values[k].sum = 5 * series.mean_values[k].count

C15_ScenarioMagnitudeFive ==
    C15_BundlesMagnitudeFive /\ C15_SummaryMagnitudeFive

(***************************************************************************)
(* The blocks of the solver log.                                           *)
(***************************************************************************)
\* the places of the text where a block stands
LogBlocks == {k \in DOMAIN clover_out.content : clover_out.content[k].kind = "block"}

\* the blocks all of whose seven values are numbers
WellFormed == {k \in LogBlocks : clover_out.content[k].bad = 0}

\* the entry of a well-formed block, in tenths: the time and the seven
\* values in the order of the columns
C16_EntryOf(block, entry) ==
    /\ DOMAIN entry = {"time"} \cup Range(LogColumns)
    /\ entry["time"] = 10 * (block.base \div 10) + 5
    /\ \A c \in DOMAIN LogColumns : entry[LogColumns[c]] = 10 * (block.base + c) + c

(***************************************************************************)
(* C16: for a solver log all of whose blocks are well-formed,              *)
(* _parse_output_file returns a mapping with exactly one entry for every   *)
(* step number that occurs in a block; the entry of a step holds the time  *)
(* and the seven values volume, mass, density, pressure, internal_energy,  *)
(* kinetic_energy, total_energy, in the order of the columns, of the last  *)
(* block of the file with that step.                                       *)
(***************************************************************************)
C16_LastBlockWins ==
    (analyzer_pc = "constructed" /\ clover_out.state = "text" /\ WellFormed = LogBlocks)
    => /\ DOMAIN output_data = {clover_out.content[k].step : k \in LogBlocks}
       /\ \A step \in DOMAIN output_data :
             LET last == CHOOSE k \in LogBlocks :
                            /\ clover_out.content[k].step = step
                            /\ \A j \in LogBlocks :
                                  clover_out.content[j].step = step => j <= k
             IN C16_EntryOf(clover_out.content[last], output_data[step])

\* a log with two blocks of step 1 and junk between them was parsed: the
\* entry of step 1 is that of the second block
C16_Witness ==
    /\ analyzer_pc = "constructed"
    /\ clover_out.state = "text"
    /\ clover_out.content =
          <<[kind |-> "block", step |-> 1, base |-> 10, bad |-> 0], Junk,
            [kind |-> "block", step |-> 1, base |-> 20, bad |-> 0]>>
    /\ DOMAIN output_data = {1}
    /\ output_data[1]["time"] = 25
    /\ output_data[1]["volume"] = 211
    /\ output_data[1]["total_energy"] = 277

(***************************************************************************)
(* C17: _parse_output_file never raises to its caller: when the log is     *)
(* missing, unreadable or holds a token that is not a number it returns a  *)
(* mapping, empty or not, and the construction of the analyzer goes        *)
(* through.                                                                *)
(***************************************************************************)
C17_NeverRaises ==
    /\ analyzer_pc \in {"new", "constructed"}
    /\ analyzer_error = "none"
    /\ parse_output_file(clover_out).raised = "none"
    /\ analyzer_pc = "constructed"
          => /\ output_data = parse_output_file(clover_out).value
             /\ DOMAIN output_data \subseteq {clover_out.content[k].step : k \in LogBlocks}

\* an analyzer was constructed on a log with a value that is not a number
C17_Witness ==
    /\ analyzer_pc = "constructed"
    /\ clover_out.state = "text"
    /\ WellFormed # LogBlocks
    /\ output_data = EmptyMapping

(***************************************************************************)
(* C18: when one block of the log has the layout of a block and one of     *)
(* its values is not a number, only that block is left out of the mapping  *)
(* returned: every well-formed block of the log, before and after it, has  *)
(* its step in the mapping.  The code leaves the loop at the first such    *)
(* value and returns an empty mapping.                                     *)
(***************************************************************************)
C18_OtherBlocksKept ==
    (analyzer_pc = "constructed" /\ clover_out.state = "text"
        /\ Cardinality(LogBlocks \ WellFormed) = 1)
    => \A k \in WellFormed : clover_out.content[k].step \in DOMAIN output_data

(***************************************************************************)
(* C19: when run_workflow has returned, the archive made in the call       *)
(* holds every snapshot file (.vtk) the solver wrote in the call, and the  *)
(* solver log clover.out when the solver wrote one.  The files are moved   *)
(* to iteration_<iteration>; the archive is made of                        *)
(* iteration_<param_str>_<iteration>.                                      *)
(***************************************************************************)
C19_ArchiveHoldsRun ==
    runner_pc = "done"
    => /\ archive_name \in DOMAIN archives
       /\ \A f \in produced :
             (IsVtk(f) \/ f = CloverOut)
                => \E member \in archives[archive_name] : member.file = f

(***************************************************************************)
(* C20: when run_workflow has returned, run_config.json was written once   *)
(* in the call, it lies in the directory that holds the snapshots and the  *)
(* solver log of the run, the files process_files moved, and the           *)
(* output_dir it records is that directory.  It is written to              *)
(* iteration_<param_str>_<iteration>, the files lie in                     *)
(* iteration_<iteration>.                                                  *)
(***************************************************************************)
C20_ConfigBesideArtifacts ==
    runner_pc = "done"
    => /\ config_writes = 1
       /\ \A dir \in DOMAIN output_dir :
             (\E f \in produced : f \in DOMAIN output_dir[dir])
                => /\ RunConfigName \in DOMAIN output_dir[dir]
                   /\ run_config.output_dir = dir

(***************************************************************************)
(* C21: cleanup() is not called in a main() that was started without       *)
(* --cleanup, nor by any other caller of run_workflow, and every main()    *)
(* started with --cleanup comes to call cleanup(), however its solver      *)
(* ends.  When the build fails or the solver returns another code than 0,  *)
(* the process ends inside run_workflow and line 253 is never reached.     *)
(***************************************************************************)
C21_CleanupWhenRequested ==
    /\ [](~should_cleanup => cleanups = 0)
    /\ \A w \in 1..MaxWorkflows :
          (workflows = w /\ runner_caller = "main" /\ should_cleanup)
             ~> (workflows = w /\ cleanups = 1)

(***************************************************************************)
(* C22: the stages of a call of run_workflow come in the order clover.in,  *)
(* solver, move, archive, run_config.json, each at most once; the build    *)
(* comes between clover.in and the solver, and only when the binary is     *)
(* missing, and the solver runs only when the binary is there.  When the   *)
(* solver has returned another code than 0 the process ends with status 1, *)
(* the solver is the last stage of the call, and until another call is     *)
(* made no file is moved, no archive made and no run_config.json written.  *)
(***************************************************************************)
C22_StageOrder == <<"input", "solver", "move", "archive", "config">>

\* the stages of the call without the build
C22_StagesButBuild == SelectSeq(stages, LAMBDA st : st # "build")

C22_SolverFailed == result # <<>> /\ result[1] # 0

C22_StagesInOrder ==
    /\ [](/\ \E k \in 0..Len(C22_StageOrder) : C22_StagesButBuild = SubSeq(C22_StageOrder, 1, k)
          /\ \A k \in DOMAIN stages : stages[k] = "build" => k = 2)
    /\ [](C22_SolverFailed
            => /\ runner_pc = "failed"
               /\ ExitStatus(runner_error) = 1
               /\ stages[Len(stages)] = "solver")
    /\ [][/\ stages' = Append(stages, "build") => CloverLeafBinary \notin DOMAIN clover_dir
          /\ stages' = Append(stages, "solver") => CloverLeafBinary \in DOMAIN clover_dir
          /\ (C22_SolverFailed /\ workflows' = workflows)
                => UNCHANGED <<output_dir, archives, run_config, config_writes>>]_vars

\* the second call finds the binary built and its solver fails; and a
\* call has gone through all six stages
C22_Witness ==
    /\ workflows = 2
    /\ stages = <<"input", "solver">>
    /\ C22_SolverFailed
    /\ \E dir \in DOMAIN output_dir : RunConfigName \in DOMAIN output_dir[dir]

(***************************************************************************)
(* C23: when get_final_state was called, by the caller or by               *)
(* plot_final_state_velocity, the file it returned is a file               *)
(* of the directory whose timestep token, as an integer, is the greatest   *)
(* of the directory, in whatever order glob listed the files and however   *)
(* many digits the tokens have; and get_final_state raises                 *)
(* FileNotFoundError exactly when the directory has no .vtk file.          *)
(***************************************************************************)
C23_FinalIsMaximum ==
    final_pc \notin {"new", "constructed"}
    => IF DOMAIN input_dir = {}
       THEN final_pc = "raised" /\ final_error = "FileNotFoundError"
       ELSE /\ final_error # "FileNotFoundError"
            /\ final_file \in DOMAIN input_dir
            /\ \A t \in DOMAIN input_dir : Token(t) <= Token(final_file)

\* the directory holds the steps 2 and 10, whose names are in the other
\* order, and step 10 was returned
C23_Witness ==
    /\ final_pc = "found"
    /\ DOMAIN input_dir = {<<2>>, <<1, 0>>}
    /\ final_file = <<1, 0>>

(***************************************************************************)
(* C28: when plot_final_state_velocity has read a final file with both     *)
(* velocity components on a grid of at least 1 by 1 points, the stride     *)
(* skip is at least 1 and the plot is made without an exception.  On a     *)
(* grid of fewer than 30 points each way, 4 by 3 say, skip is 0 and the    *)
(* slice [::0] raises ValueError.                                          *)
(***************************************************************************)
C28_StrideAtLeastOne ==
    (/\ final_pc \in {"plotted", "raised"}
     /\ final_file \in DOMAIN input_dir
     /\ {"x_vel", "y_vel"} \subseteq DOMAIN input_dir[final_file].point
     /\ input_dir[final_file].nx >= 1
     /\ input_dir[final_file].ny >= 1)
    => /\ Skip(input_dir[final_file].nx, input_dir[final_file].ny) >= 1
       /\ final_pc = "plotted"
       /\ final_plot.skip >= 1

(***************************************************************************)
(* C24: when a CloverLeafAnalyzer has been constructed on a directory, of  *)
(* whatever name, self.vtk_files holds the files of the directory in       *)
(* non-decreasing order of their integer step tokens, in whatever order    *)
(* glob listed them.  get_timestep gives 0 for a path of fewer than 5      *)
(* pieces between dots, which is every path in a directory such as "out",  *)
(* and the list stays in the order of glob.                                *)
(***************************************************************************)
C24_SortedByStep ==
    analyzer_pc # "new"
    => /\ Range(analyzer_vtk_files) = DOMAIN input_dir
       /\ \A j, k \in DOMAIN analyzer_vtk_files :
             j < k => Token(analyzer_vtk_files[j]) <= Token(analyzer_vtk_files[k])

(***************************************************************************)
(* C25: whenever process_all_files has returned, after whatever calls and  *)
(* changes of the input directory before, the bundle directory holds       *)
(* exactly timestep_0000 to timestep_(n-1), n being the number of files of *)
(* the call that returned, and bundle i is the stack of the i-th file the  *)
(* call visited.  A call that finds fewer files than a call before it      *)
(* leaves the bundles of the higher indexes where they were.               *)
(***************************************************************************)
C25_BundlesOfLastCall ==
    pc = "done"
    => /\ DOMAIN npy_dir = {Fmt04d(k - 1) : k \in DOMAIN vtk_files}
       /\ \A k \in DOMAIN vtk_files :
             /\ Fmt04d(k - 1) \in DOMAIN npy_dir
             /\ npy_dir[Fmt04d(k - 1)]
                   = save_timestep_data(read_vtk_file(input_dir[vtk_files[k]])).bundle

(***************************************************************************)
(* C26: when both visualizers have read one file, whatever arrays it       *)
(* holds and in whatever order, a point array called velocity_magnitude    *)
(* included, either both raised, the same exception, or both returned,     *)
(* the same x_coords, y_coords, cell_data and point_data.                  *)
(***************************************************************************)
C26_ReadersAgree ==
    readers_called = {"vis", "v2"}
    => /\ v2_result.ok = vis_result.ok
       /\ v2_result.error = vis_result.error
       /\ v2_result.x_coords = vis_result.x_coords
       /\ v2_result.y_coords = vis_result.y_coords
       /\ v2_result.cell_data = vis_result.cell_data
       /\ v2_result.point_data = vis_result.point_data

\* the file holds velocity_magnitude between y_vel and x_vel, and both
\* readers returned the magnitude they derived, not that of the file
C26_Witness ==
    /\ readers_called = {"vis", "v2"}
    /\ input_dir[<<0>>].order = <<"y_vel", "velocity_magnitude", "x_vel">>
    /\ input_dir[<<0>>].nx = 2
    /\ v2_result.ok
    /\ v2_result.point_data["velocity_magnitude"]
          = Magnitude(v2_result.point_data["x_vel"], v2_result.point_data["y_vel"])
    /\ v2_result.point_data["velocity_magnitude"].data
          # ArrayValues("velocity_magnitude", input_dir[<<0>>].point["velocity_magnitude"])

(***************************************************************************)
(* C27: when the script of old_scripts/visualize_V2.py, run with           *)
(* --save-npy on a directory whose snapshots are all valid, has come to    *)
(* its end, process_all_files has saved a bundle for every snapshot and    *)
(* returned without an exception, and the animation was made when there    *)
(* is a snapshot.  process_all_files ends with return metadata, a name     *)
(* bound nowhere: it raises NameError when all bundles are saved.          *)
(***************************************************************************)
C27_SaveThenAnimate ==
    (/\ script_pc \in {"ended", "died"}
     /\ save_npy
     /\ \A t \in DOMAIN input_dir : input_dir[t] \in ValidFiles)
    => /\ Len(saved) = Cardinality(DOMAIN input_dir)
       /\ error = NoError
       /\ script_pc = "ended"
       /\ animations = IF DOMAIN input_dir = {} THEN 0 ELSE 1

(***************************************************************************)
(* C29: when process_files has moved the output of a call of run_workflow, *)
(* after whatever calls before it, failed ones included, every snapshot    *)
(* file (.vtk) of the directory it moved to was written by the solver in   *)
(* this call.  The directory is iteration_<iteration>, whatever the        *)
(* parameters, and is never emptied; and glob takes every .vtk of          *)
(* clover_dir, those a failed call left there included.                    *)
(***************************************************************************)
C29_OnlyThisRun ==
    runner_pc \in {"processed", "archived", "done"}
    => LET dir == output_dir[IterationDir(NoParam, iteration)]
       IN \A f \in DOMAIN dir : IsVtk(f) => (f \in produced /\ dir[f] = workflows)

(***************************************************************************)
(* C30: a runner constructed without base_dir has, when the search is      *)
(* over, base_dir set to the nearest of the working directory and its      *)
(* ancestors, the root included, that holds a CloverLeaf_Serial, and       *)
(* FileNotFoundError is raised only when none of them holds one.  The      *)
(* loop ends when current is the root, without looking into the root.      *)
(***************************************************************************)
C30_NearestHolder ==
    search_pc \in {"found", "raised"}
    => IF holders = {}
       THEN search_pc = "raised"
       ELSE /\ search_pc = "found"
            /\ base_dir \in holders
            /\ \A h \in holders : Len(h) <= Len(base_dir)

=============================================================================
